---- MODULE Spec2Model ----
(***************************************************************************)
(* MindEcho: the recording / transcription lifecycle of the voice-notes     *)
(* application.                                                             *)
(*                                                                          *)
(* The components of the repository are modelled side by side, each with    *)
(* its own variables and its own specifications:                            *)
(*                                                                          *)
(*   Spec, SpecRevocation   VoiceNotesApp (figmacode/components/            *)
(*                 VoiceNotesApp.tsx): speech recognition and permission    *)
(*   SpecRecorder  VoiceRecorder (src/components/VoiceRecorder.tsx)         *)
(*   SpecTranscript, SpecStore, SpecStoreWritten, SpecFilter, SpecLoad      *)
(*                 transcript, note and folder stores of VoiceNotesApp      *)
(*   SpecSrc, SpecFolder   stores of the src application, folder manager    *)
(*   SpecTimeline  NotesHistoryTimeline                                     *)
(*   SpecPage      the stand-alone recorder page                            *)
(*   SpecProbe, SpecWizard, SpecPanel   permission probes, PermissionSetup  *)
(*                 and the diagnostics panels                               *)
(*                                                                          *)
(* React specifics that the code's behaviour rests on are modelled          *)
(* explicitly: a callback closes over the state values of the render that   *)
(* created it (the c... fields), a ref is read at call time, and an effect  *)
(* whose dependencies changed is re-run (cleanup, then body) as a step of   *)
(* its own after the state change that triggered it.                        *)
(*                                                                          *)
(* A string is a sequence of its pieces (characters, or a whole literal).   *)
(***************************************************************************)
EXTENDS Integers, Sequences, FiniteSets, TLC

\* ---------------------------------------------------------------- bounds
\* recognition objects that exist at the same time (referenced or still running)
MaxInst == 3
\* startRecording calls awaiting the permission request at the same time
MaxPending == 2
\* restart timers (setTimeout of onend) pending at the same time
MaxTimers == 1
\* values Date.now() can return
MaxClock == 2
\* final results delivered in one session
MaxFinals == 2
\* length of the transcript string
MaxLen == 4

\* ------------------------------------------------------- string helpers
EmptyStr == << >>

Last(s) == s[Len(s)]

\* String.prototype.endsWith for a one-character suffix
EndsWith(s, c) == Len(s) > 0 /\ Last(s) = c

\* index of the first character of the last line of s (s.split('\n') last element)
RECURSIVE LastLineStart(_, _)
LastLineStart(s, i) ==
    IF i = 0 THEN 1
    ELSE IF s[i] = "\n" THEN i + 1
    ELSE LastLineStart(s, i - 1)

\* lines[lines.length - 1]
LastLine(s) == SubSeq(s, LastLineStart(s, Len(s)), Len(s))

\* lines.slice(0, -1).join('\n') followed by the separator, i.e. s without its last line
ButLastLine(s) == SubSeq(s, 1, LastLineStart(s, Len(s)) - 1)

\* the concatenation of a sequence of strings
RECURSIVE Flatten(_)
Flatten(ss) == IF ss = << >> THEN EmptyStr ELSE Head(ss) \o Flatten(Tail(ss))

\* s without the element at index k
RemoveAt(s, k) == SubSeq(s, 1, k - 1) \o SubSeq(s, k + 1, Len(s))

\* ---------------------------------------------------- recognition results
\* One SpeechRecognitionResult: its first alternative's transcript and isFinal.
Res(t, f) == [transcript |-> t, isFinal |-> f]

\* the result texts the recogniser delivers
Texts == { <<"a">>, <<"b", ".">> }

\* event.results from event.resultIndex on: one or two results
ResultEvents ==
    { <<Res(t, f)>> : t \in Texts, f \in BOOLEAN }
    \cup { <<Res(<<"a">>, TRUE), Res(<<"b", ".">>, FALSE)>> }

\* the result events delivered in the lifecycle specification: one final result
SessionEvents == { <<Res(<<"a">>, TRUE)>> }

\* the loop of onresult: finalTranscript += transcript + ' ' for final results
RECURSIVE FinalTranscript(_)
FinalTranscript(results) ==
    IF results = << >> THEN EmptyStr
    ELSE (IF Head(results).isFinal THEN Head(results).transcript \o <<" ">> ELSE EmptyStr)
         \o FinalTranscript(Tail(results))

\* the loop of onresult: interimTranscript += transcript for non-final results
RECURSIVE InterimTranscript(_)
InterimTranscript(results) ==
    IF results = << >> THEN EmptyStr
    ELSE (IF Head(results).isFinal THEN EmptyStr ELSE Head(results).transcript)
         \o InterimTranscript(Tail(results))

\* setTranscript(prev => prev + finalTranscript), when finalTranscript is non-empty
AppendFinal(prev, results) == prev \o FinalTranscript(results)

\* the interim updater: replace the last line by the interim text unless the
\* last line is empty or ends a sentence, else append the interim text
ShowInterim(prev, interim) ==
    LET lastLine == LastLine(prev)
    IN  IF lastLine # EmptyStr /\ ~EndsWith(lastLine, ".") /\ ~EndsWith(lastLine, "!")
           /\ ~EndsWith(lastLine, "?")
        THEN ButLastLine(prev) \o interim
        ELSE prev \o interim

\* recognition.onresult of VoiceNotesApp: the transcript after the event
OnResultTranscript(prev, results) ==
    LET afterFinal == IF FinalTranscript(results) # EmptyStr
                      THEN AppendFinal(prev, results) ELSE prev
    IN  IF InterimTranscript(results) # EmptyStr
        THEN ShowInterim(afterFinal, InterimTranscript(results))
        ELSE afterFinal

\* the transcripts of the results marked final, in order (without separators)
RECURSIVE FinalTexts(_)
FinalTexts(results) ==
    IF results = << >> THEN << >>
    ELSE (IF Head(results).isFinal THEN <<Head(results).transcript>> ELSE << >>)
         \o FinalTexts(Tail(results))


\* ======================================================================
\* VoiceNotesApp (figmacode/components/VoiceNotesApp.tsx)
\* ======================================================================
VARIABLES
    isRecording,          \* useState(false)
    transcript,           \* useState('')
    recordingStartTime,   \* useState<number | null>(null); NoTime is null
    permissionState,      \* useState<PermissionState>('unknown')
    recognitionRef,       \* useRef: the recognition object the ref points to
    isRecognitionActive,  \* useRef(false)
    recs,                 \* the SpeechRecognition objects alive, by identity
    pendGum,              \* startRecording calls awaiting getUserMedia
    pendCheck,            \* startRecording calls awaiting checkMicrophonePermission
    restartTimers,        \* pending setTimeout callbacks scheduled by onend
    queryPending,         \* a navigator.permissions.query of the effect is in flight
    effDeps,              \* [isRecording, permissionState] the effect last ran with
    browserPerm,          \* the browser's microphone permission (environment)
    permissionListener,   \* a 'change' listener of checkMicrophonePermission is attached
    clock,                \* the next value of Date.now()
    finals,               \* history: texts of the final results since the session began
    sessionInst,          \* history: the recognition object startRecording started
    op                    \* history: the handler that ran last, and what it started from

appVars == <<isRecording, transcript, recordingStartTime, permissionState,
             recognitionRef, isRecognitionActive, recs, pendGum, pendCheck,
             restartTimers, queryPending, effDeps, browserPerm, permissionListener,
             clock, finals, sessionInst, op>>

\* ---- VoiceRecorder (src/components/VoiceRecorder.tsx), specified further down
VARIABLES
    vrIsRecording,        \* useState(false)
    vrTranscript,         \* useState('')
    vrError,              \* useState<string | null>(null): an error is shown
    mediaRecorderRef,     \* useRef: the MediaRecorder the ref points to (0: null)
    vrRecognitionRef,     \* useRef: the recognition object the ref points to
    chunksRef,            \* useRef<Blob[]>: the recorder each chunk came from
    recorders,            \* the MediaRecorder objects alive, with their streams
    vrRecs,               \* the SpeechRecognition objects alive
    vrPending,            \* startRecording calls awaiting getUserMedia
    leakedStreams,        \* live streams that no MediaRecorder holds
    vrNotes,              \* the notes handed to onNewNote, oldest first
    vrEffDep,             \* the isRecording value the effect last ran with
    vrStarts,             \* history: number of startRecording calls so far
    vrOp                  \* history: the handler that ran last

recorderVars == <<vrIsRecording, vrTranscript, vrError, mediaRecorderRef,
                  vrRecognitionRef, chunksRef, recorders, vrRecs, vrPending,
                  leakedStreams, vrNotes, vrEffDep, vrStarts, vrOp>>

\* ---- the note and folder stores, specified further down
VARIABLES
    notes,                \* VoiceNotesApp: useState<Note[]>([])
    folders,              \* VoiceNotesApp: useState<Folder[]>([])
    selectedFolderId,     \* VoiceNotesApp: useState<string | undefined>()
    filter,               \* VoiceNotesApp: useState<NoteFilter>({})
    storedNotes,          \* localStorage item 'voiceNotes'
    storedFolders,        \* localStorage item 'noteFolders'
    loadWarning,          \* history: loadSavedData showed its warning toast
    srcNotes,             \* src/components/VoiceNotesApp: useState<Note[]>([])
    srcFolders,           \* components/FolderManager: useState<Folder[]>([])
    searchQuery,          \* components/NotesSearch: useState('')
    storeOp,              \* history: the store handler that ran last
    storeThrows           \* history: the localStorage.setItem calls that threw

storeVars == <<notes, folders, selectedFolderId, filter, storedNotes, storedFolders,
               loadWarning, srcNotes, srcFolders, searchQuery, storeOp, storeThrows>>

\* ---- the stand-alone recorder page (figmacode/components/VoiceRecorder.tsx),
\* specified further down
VARIABLES
    frIsRecording,          \* useState(false)
    frTranscript,           \* useState('')
    frPermissionState,      \* useState<PermissionState>('unknown')
    frIsCheckingPermission, \* useState(false)
    frRec,                  \* the state of the recognition object of recognitionRef
    frPending,              \* who awaits getUserMedia: "none", "start", "enable"
    frQueryPending,         \* the permissions.query of the mount effect is in flight
    frBrowserPerm,          \* the browser's microphone permission (environment)
    frToast,                \* history: the toast shown last
    frOp                    \* history: the handler that ran last

pageVars == <<frIsRecording, frTranscript, frPermissionState, frIsCheckingPermission,
              frRec, frPending, frQueryPending, frBrowserPerm, frToast, frOp>>

\* ---- the permission probes and the permission wizard (unnamed/part_000,
\* unnamed/part_001, components/MicrophoneDebugger.tsx), specified further down
VARIABLES
    micPerm,              \* the browser's microphone permission (environment)
    probePending,         \* the probes whose getUserMedia call is in flight
    probeLive,            \* per probe, the streams it acquired that are still live
    currentStep,          \* PermissionSetup: useState(1)
    wzPermissionState,    \* PermissionSetup: useState('unknown')
    isTestingMic,         \* PermissionSetup: useState(false)
    wzQueryPending,       \* the permissions.query of checkInitialPermission is in flight
    wzListener,           \* the 'change' listener of checkInitialPermission is attached
    hasPermission,        \* unnamed/part_004: useState(false)
    diagOp                \* history: the handler that ran last

\* ---- the diagnostics panels (figmacode/components/MicrophoneDebugger.tsx and
\* components/MicrophoneDebugger.tsx), specified further down
VARIABLES
    testStream,           \* figmacode panel: useState(null); 0 is null, else the stream
    dbgIsTestingMic,      \* figmacode panel: isTestingMic, useState(false)
    testPhase,            \* the await testMicrophoneAccess stands at, or "idle"
    testClosure,          \* the const stream of the testMicrophoneAccess call in flight
    testStreams,          \* per stream of the figmacode panel: "none", "live", "stopped"
    testTimers,           \* the streams whose 3-second timer is pending
    dbgPending,           \* src panel: startRecording calls awaiting getUserMedia
    mediaStreamRef,       \* src panel: mediaStreamRef.current; 0 is null
    dbgIsRecording,       \* src panel: isRecording, useState(false)
    dbgStreams,           \* per stream of the src panel: "none", "live", "stopped"
    panelOp               \* history: the handler that ran last

panelVars == <<testStream, dbgIsTestingMic, testPhase, testClosure, testStreams,
               testTimers, dbgPending, mediaStreamRef, dbgIsRecording, dbgStreams,
               panelOp>>

diagVars == <<micPerm, probePending, probeLive, currentStep, wzPermissionState,
              isTestingMic, wzQueryPending, wzListener, hasPermission, diagOp,
              panelVars>>

vars == <<appVars, recorderVars, storeVars, pageVars, diagVars>>

\* recordingStartTime === null
NoTime == 0

Insts == 1 .. MaxInst

\* a slot of recs that holds no object
FreeRec == [st |-> "free", cRec |-> FALSE, cGranted |-> FALSE]

\* new SpeechRecognition() with the handlers of initializeSpeechRecognition: the
\* handlers close over isRecording and permissionState of the render that made them
NewRec(rec, perm) == [st |-> "inactive", cRec |-> rec, cGranted |-> (perm = "granted")]

\* start() was called and no error or end event has fired since
Started(r) == r.st \in {"starting", "listening", "ending"}

\* the recogniser is capturing (start() called, neither stopped nor ended)
Running(r) == r.st \in {"starting", "listening"}

\* SpeechRecognition.stop(): ignored unless the object is started and not yet stopping
RecStop(rs, i) ==
    [rs EXCEPT ![i].st = IF @ \in {"starting", "listening"} THEN "ending" ELSE @]

\* SpeechRecognition.start() succeeds; on a started object it throws InvalidStateError
CanStart(rs, i) == rs[i].st = "inactive"

RecStart(rs, i) == [rs EXCEPT ![i].st = "starting"]

\* the least free slot: the identity of the next object created
FreeSlot(rs) == CHOOSE i \in Insts : rs[i].st = "free" /\ \A j \in Insts : j < i => rs[j].st # "free"

\* an object nothing refers to any more and that will deliver no event
Collect(rs, keep) ==
    [i \in Insts |-> IF rs[i].st = "inactive" /\ i # keep THEN FreeRec ELSE rs[i]]

\* no start is in flight and the recording flag is clear
Idle == ~isRecording /\ pendGum = 0 /\ pendCheck = 0

\* history bookkeeping of a handler named name, about recognition object i (0: none):
\* active and idle are the recording flag and Idle when the handler started
LogOp(name, i) ==
    /\ op' = [name |-> name, inst |-> i, active |-> isRecording, idle |-> Idle]
    /\ UNCHANGED <<recorderVars, pageVars>>

\* the same for a handler that touches neither the notes nor the folders
Log(name, i) ==
    /\ LogOp(name, i)
    /\ UNCHANGED <<storeVars, diagVars>>

\* ---- localStorage and loadSavedData
\* the argument recorded for a handler that takes none
NoArg == [none |-> TRUE]

\* folderId undefined
NoFolder == 0

\* a value of localStorage: getItem returns null, a text JSON.parse rejects (or
\* that is no array), or the JSON text of the array value
Missing == [kind |-> "missing", value |-> << >>]

Malformed == [kind |-> "malformed", value |-> << >>]

Json(value) == [kind |-> "json", value |-> value]

\* JSON.stringify of a note or folder: the Date under key becomes its ISO string.
\* A key whose value is undefined is left out; the undefined marker stands for it
StringifyDate(r, key) == [r EXCEPT ![key] = [iso |-> r[key]]]

\* new Date(text) of an ISO string, as in the map of loadSavedData
ReviveDate(j, key) == [j EXCEPT ![key] = j[key].iso]

\* JSON.stringify(updatedNotes)
StringifyNotes(ns) == Json([k \in 1 .. Len(ns) |-> StringifyDate(ns[k], "timestamp")])

\* JSON.stringify(updatedFolders)
StringifyFolders(fs) == Json([k \in 1 .. Len(fs) |-> StringifyDate(fs[k], "createdAt")])

\* JSON.parse(savedNotes).map(...), lines 265-268
ParseNotes(item) == [k \in 1 .. Len(item.value) |-> ReviveDate(item.value[k], "timestamp")]

\* JSON.parse(savedFolders).map(...), lines 274-277
ParseFolders(item) == [k \in 1 .. Len(item.value) |-> ReviveDate(item.value[k], "createdAt")]

\* loadSavedData, lines 261-284: one try block around both items, so a parse error
\* of the notes skips the folders; a null item is skipped
loadSavedData ==
    /\ notes' = IF storedNotes.kind = "json" THEN ParseNotes(storedNotes) ELSE notes
    /\ folders' = IF storedNotes.kind # "malformed" /\ storedFolders.kind = "json"
                  THEN ParseFolders(storedFolders) ELSE folders
    /\ loadWarning' = (storedNotes.kind = "malformed"
                       \/ storedFolders.kind = "malformed")
    /\ UNCHANGED <<selectedFolderId, filter, storedNotes, storedFolders, srcNotes,
                   srcFolders, searchQuery, storeThrows>>

\* ---- microphone streams of the permission probes
\* the functions that call getUserMedia only to surface the permission prompt
Probes == {"requestMicrophonePermission", "requestPermission",
           "testMicrophonePermission", "loadDevices"}

\* getUserMedia resolved for probe p with a stream whose tracks are live
AcquireStream(live, p) == [live EXCEPT ![p] = @ + 1]

\* stream.getTracks().forEach(track => track.stop()) on a stream of probe p
StopTracks(live, p) == [live EXCEPT ![p] = @ - 1]

AppInit ==
    /\ isRecording = FALSE
    /\ transcript = EmptyStr
    /\ recordingStartTime = NoTime
    /\ permissionState = "unknown"
    /\ recognitionRef = 1
    /\ isRecognitionActive = FALSE
    /\ recs = [i \in Insts |-> IF i = 1 THEN NewRec(FALSE, "unknown") ELSE FreeRec]
    /\ pendGum = 0
    /\ pendCheck = 0
    /\ restartTimers = 0
    /\ queryPending = TRUE
    /\ effDeps = [isRecording |-> FALSE, permissionState |-> "unknown"]
    /\ browserPerm \in {"prompt", "granted", "denied"}
    /\ permissionListener = FALSE
    /\ clock = 1
    /\ finals = << >>
    /\ sessionInst = 0
    /\ op = [name |-> "mount", inst |-> 0, active |-> FALSE, idle |-> TRUE]

\* stopRecording (lines 353-377), applied to the recognition objects rs
stopRecording(rs) ==
    /\ isRecording' = FALSE
    /\ recordingStartTime' = NoTime
    /\ isRecognitionActive' = FALSE
    /\ recs' = RecStop(rs, recognitionRef)

\* the try / catch of startRecording (lines 326-350)
StartTry ==
    /\ clock <= MaxClock
    /\ transcript' = EmptyStr
    /\ isRecognitionActive' = FALSE
    /\ clock' = clock + 1
    /\ IF CanStart(recs, recognitionRef)
       THEN /\ isRecording' = TRUE
            /\ recordingStartTime' = clock
            /\ recs' = RecStart(recs, recognitionRef)
            /\ finals' = << >>
            /\ sessionInst' = recognitionRef
       ELSE \* recognitionRef.current.start() throws: the catch block
            /\ isRecording' = FALSE
            /\ recordingStartTime' = NoTime
            /\ recs' = recs
            /\ UNCHANGED <<finals, sessionInst>>

\* handleRecordingClick with isRecording false: startRecording up to its first await,
\* or to its end when permission is already granted
ClickStart ==
    /\ ~isRecording
    /\ IF permissionState # "granted"
       THEN /\ pendGum < MaxPending
            /\ pendGum' = pendGum + 1
            /\ UNCHANGED <<isRecording, transcript, recordingStartTime, isRecognitionActive,
                           recs, clock, finals, sessionInst>>
       ELSE /\ StartTry
            /\ UNCHANGED pendGum
    /\ Log("startRecording", recognitionRef)
    /\ UNCHANGED <<permissionState, recognitionRef, pendCheck, restartTimers,
                   queryPending, effDeps, browserPerm, permissionListener>>

\* requestMicrophonePermission (lines 286-307): getUserMedia settles. The user
\* answers a prompt; the tracks of a granted stream are stopped at once (line 289)
GetUserMediaSettles(allow) ==
    /\ pendGum > 0
    /\ browserPerm = "granted" => allow
    /\ browserPerm = "denied" => ~allow
    /\ pendGum' = pendGum - 1
    /\ IF allow
       THEN /\ pendCheck < MaxPending
            /\ permissionState' = "granted"
            /\ browserPerm' = "granted"
            /\ pendCheck' = pendCheck + 1
       ELSE /\ permissionState' = "denied"
            /\ browserPerm' = "denied"
            /\ UNCHANGED pendCheck
    /\ probeLive' = IF allow
                    THEN StopTracks(AcquireStream(probeLive, "requestMicrophonePermission"),
                                    "requestMicrophonePermission")
                    ELSE probeLive
    /\ LogOp(IF allow THEN "permissionGranted" ELSE "permissionDenied", 0)
    /\ UNCHANGED permissionListener
    /\ UNCHANGED <<storeVars, micPerm, probePending, currentStep, wzPermissionState,
                   isTestingMic, wzQueryPending, wzListener, hasPermission, diagOp,
                   panelVars>>
    /\ UNCHANGED <<isRecording, transcript, recordingStartTime, recognitionRef,
                   isRecognitionActive, recs, restartTimers, queryPending, effDeps,
                   clock, finals, sessionInst>>

\* the awaited checkMicrophonePermission of requestMicrophonePermission resolves
\* and startRecording continues with its try block
CheckResolves ==
    /\ pendCheck > 0
    /\ pendCheck' = pendCheck - 1
    /\ permissionState' = browserPerm
    /\ permissionListener' = TRUE
    /\ StartTry
    /\ Log("startRecordingResumes", recognitionRef)
    /\ UNCHANGED <<recognitionRef, pendGum, restartTimers, queryPending, effDeps, browserPerm>>

\* handleRecordingClick with isRecording true
ClickStop ==
    /\ isRecording
    /\ stopRecording(recs)
    /\ Log("stopRecording", recognitionRef)
    /\ UNCHANGED <<transcript, permissionState, recognitionRef, pendGum, pendCheck,
                   restartTimers, queryPending, effDeps, browserPerm, permissionListener, clock, finals,
                   sessionInst>>


\* recognition.onstart (lines 122-126) on object i
RecOnStart(i) ==
    /\ recs[i].st = "starting"
    /\ recs' = [recs EXCEPT ![i].st = "listening"]
    /\ isRecognitionActive' = TRUE
    /\ Log("onstart", i)
    /\ UNCHANGED <<isRecording, transcript, recordingStartTime, permissionState,
                   recognitionRef, pendGum, pendCheck, restartTimers, queryPending,
                   effDeps, browserPerm, permissionListener, clock, finals, sessionInst>>

\* recognition.onresult (lines 128-160) on object i
RecOnResult(i, results) ==
    /\ recs[i].st = "listening"
    /\ Len(OnResultTranscript(transcript, results)) <= MaxLen
    /\ Len(finals \o FinalTexts(results)) <= MaxFinals
    /\ transcript' = OnResultTranscript(transcript, results)
    /\ finals' = finals \o FinalTexts(results)
    /\ Log("onresult", i)
    /\ UNCHANGED <<isRecording, recordingStartTime, permissionState, recognitionRef,
                   isRecognitionActive, recs, pendGum, pendCheck, restartTimers,
                   queryPending, effDeps, browserPerm, permissionListener, clock, sessionInst>>

\* the error categories of the recogniser
Errors == {"not-allowed", "no-speech", "network", "audio-capture"}

TransientErrors == {"no-speech", "network"}

\* recognition.onerror as it would be if 'no-speech' and 'network' did not reach
\* stopRecording: the session is left active after a transient error
RecOnErrorIgnoresTransient(i, error) ==
    /\ Running(recs[i])
    /\ IF error = "not-allowed"
       THEN permissionState' = "denied" /\ browserPerm' = "denied"
       ELSE UNCHANGED <<permissionState, browserPerm>>
    /\ IF error \in TransientErrors
       THEN /\ recs' = [recs EXCEPT ![i].st = "ending"]
            /\ isRecognitionActive' = FALSE
            /\ UNCHANGED <<isRecording, recordingStartTime>>
       ELSE stopRecording([recs EXCEPT ![i].st = "ending"])
    /\ Log(IF error \in TransientErrors THEN "onerrorTransient" ELSE "onerror", i)
    /\ UNCHANGED permissionListener
    /\ UNCHANGED <<transcript, recognitionRef, pendGum, pendCheck, restartTimers,
                   queryPending, effDeps, clock, finals, sessionInst>>

\* recognition.onerror (lines 162-183) on object i; the recogniser ends after an
\* error, its end event follows. 'not-allowed' is the browser refusing the microphone
RecOnError(i, error) ==
    /\ Running(recs[i])
    /\ IF error = "not-allowed"
       THEN permissionState' = "denied" /\ browserPerm' = "denied"
       ELSE UNCHANGED <<permissionState, browserPerm>>
    /\ stopRecording([recs EXCEPT ![i].st = "ending"])
    /\ Log(IF error \in TransientErrors THEN "onerrorTransient" ELSE "onerror", i)
    /\ UNCHANGED permissionListener
    /\ UNCHANGED <<transcript, recognitionRef, pendGum, pendCheck, restartTimers,
                   queryPending, effDeps, clock, finals, sessionInst>>

\* recognition.onend (lines 185-202) on object i, after stop(), after an error, or
\* when the browser ends recognition by itself; hidden is document.hidden
RecOnEnd(i, hidden) ==
    /\ recs[i].st \in {"listening", "ending"}
    /\ recs' = Collect([recs EXCEPT ![i].st = "inactive"], recognitionRef)
    /\ isRecognitionActive' = FALSE
    /\ IF recs[i].cRec /\ ~hidden /\ recs[i].cGranted
       THEN restartTimers < MaxTimers /\ restartTimers' = restartTimers + 1
       ELSE UNCHANGED restartTimers
    /\ Log(IF hidden THEN "onendHidden" ELSE "onend", i)
    /\ UNCHANGED <<isRecording, transcript, recordingStartTime, permissionState,
                   recognitionRef, pendGum, pendCheck, queryPending, effDeps,
                   browserPerm, permissionListener, clock, finals, sessionInst>>

\* the setTimeout callback of onend (lines 191-200); its closure has isRecording true
RestartTimerFires ==
    /\ restartTimers > 0
    /\ restartTimers' = restartTimers - 1
    /\ IF ~isRecognitionActive
       THEN IF CanStart(recs, recognitionRef)
            THEN /\ recs' = RecStart(recs, recognitionRef)
                 /\ sessionInst' = recognitionRef
                 /\ UNCHANGED <<isRecording, recordingStartTime, isRecognitionActive>>
            ELSE stopRecording(recs) /\ UNCHANGED sessionInst
       ELSE UNCHANGED <<isRecording, recordingStartTime, isRecognitionActive, recs,
                        sessionInst>>
    /\ Log("restartTimer", recognitionRef)
    /\ UNCHANGED <<transcript, permissionState, recognitionRef, pendGum, pendCheck,
                   queryPending, effDeps, browserPerm, permissionListener, clock, finals>>

\* the effect of lines 207-238 re-runs because initializeSpeechRecognition changed
\* with isRecording or permissionState: its cleanup, then its body, which also
\* calls loadSavedData
EffectRun ==
    /\ effDeps # [isRecording |-> isRecording, permissionState |-> permissionState]
    /\ LET cleaned == IF isRecognitionActive THEN RecStop(recs, recognitionRef) ELSE recs
           kept == Collect(cleaned, 0)
       IN  /\ \E i \in Insts : kept[i].st = "free"
           /\ recs' = [kept EXCEPT ![FreeSlot(kept)] = NewRec(isRecording, permissionState)]
           /\ recognitionRef' = FreeSlot(kept)
    /\ queryPending' = TRUE
    /\ effDeps' = [isRecording |-> isRecording, permissionState |-> permissionState]
    /\ loadSavedData
    /\ storeOp' = [name |-> "loadSavedData", id |-> NoFolder, arg |-> NoArg, threw |-> FALSE]
    /\ LogOp("effect", recognitionRef')
    /\ UNCHANGED diagVars
    /\ UNCHANGED <<isRecording, transcript, recordingStartTime, permissionState,
                   isRecognitionActive, pendGum, pendCheck, restartTimers, browserPerm, permissionListener,
                   clock, finals, sessionInst>>

\* checkMicrophonePermission (lines 85-105) called by the effect: the query resolves
PermissionQueryResolves ==
    /\ queryPending
    /\ queryPending' = FALSE
    /\ permissionState' = browserPerm
    /\ permissionListener' = TRUE
    /\ Log("permissionQuery", 0)
    /\ UNCHANGED <<isRecording, transcript, recordingStartTime, recognitionRef,
                   isRecognitionActive, recs, pendGum, pendCheck, restartTimers,
                   effDeps, browserPerm, clock, finals, sessionInst>>

\* the microphone permission is withdrawn while no session is recording: the user
\* blocks the site (state 'denied') or a grant expires (state 'prompt'). The
\* 'change' listener of checkMicrophonePermission (lines 95-100) runs if a query
\* has attached one. During a session the recogniser reports the withdrawal as
\* the 'not-allowed' error of RecOnError
PermissionRevoked(state) ==
    /\ ~isRecording
    /\ browserPerm = "granted"
    /\ browserPerm' = state
    /\ permissionState' = IF permissionListener THEN state ELSE permissionState
    /\ Log("permissionRevoked", 0)
    /\ UNCHANGED <<isRecording, transcript, recordingStartTime, recognitionRef,
                   isRecognitionActive, recs, pendGum, pendCheck, restartTimers,
                   queryPending, effDeps, permissionListener, clock, finals,
                   sessionInst>>

\* the lifecycle of a session without its results, with the permission withdrawn
\* between sessions
RevocationNext ==
    \/ ClickStart
    \/ \E allow \in BOOLEAN : GetUserMediaSettles(allow)
    \/ CheckResolves
    \/ ClickStop
    \/ \E i \in Insts : RecOnStart(i)
    \/ \E i \in Insts : RecOnError(i, "not-allowed")
    \/ \E i \in Insts : RecOnEnd(i, FALSE)
    \/ EffectRun
    \/ PermissionQueryResolves
    \/ \E state \in {"prompt", "denied"} : PermissionRevoked(state)

AppNext ==
    \/ ClickStart
    \/ \E allow \in BOOLEAN : GetUserMediaSettles(allow)
    \/ CheckResolves
    \/ ClickStop
    \/ \E i \in Insts : RecOnStart(i)
    \/ \E i \in Insts, results \in SessionEvents : RecOnResult(i, results)
    \/ \E i \in Insts, error \in Errors : RecOnError(i, error)
    \/ \E i \in Insts, hidden \in BOOLEAN : RecOnEnd(i, hidden)
    \/ RestartTimerFires
    \/ EffectRun
    \/ PermissionQueryResolves


\* ======================================================================
\* VoiceRecorder (src/components/VoiceRecorder.tsx)
\* ======================================================================
\* MediaRecorder objects that exist at the same time
MaxRecorders == 2
\* startRecording calls of one run
MaxStarts == 2
\* chunks delivered by the one-second timeslice between two resets of chunksRef
MaxChunks == 1

Recorders == 1 .. MaxRecorders

\* text: transcript || 'Untitled Note'
UntitledNote == <<"Untitled Note">>

\* a slot of recorders that holds no object
FreeRecorder == [state |-> "free", live |-> FALSE, stopPending |-> FALSE,
                 cTranscript |-> EmptyStr, sid |-> 0, endedBy |-> "none",
                 heard |-> EmptyStr]

\* new MediaRecorder(stream, options) then start(1000), lines 167-213: the onstop
\* handler closes over the transcript of the render startRecording was called from.
\* live: the tracks of its stream are live. sid, endedBy, heard are history: the
\* startRecording call it belongs to, what ended it, the transcript when it ended
NewRecorder(t, sid) == [state |-> "recording", live |-> TRUE, stopPending |-> FALSE,
                        cTranscript |-> t, sid |-> sid, endedBy |-> "none",
                        heard |-> EmptyStr]

VrFreeRec == [st |-> "free", cRec |-> FALSE, attached |-> FALSE]

\* new SpeechRecognition() of the effect, lines 67-124: onend closes over isRecording
VrNewRec(rec) == [st |-> "inactive", cRec |-> rec, attached |-> TRUE]

\* recognition.start(): VoiceRecorder has no onstart handler
VrRecStart(rs, i) == [rs EXCEPT ![i].st = "listening"]

VrCollect(rs, keep) ==
    [i \in Insts |-> IF rs[i].st = "inactive" /\ i # keep THEN VrFreeRec ELSE rs[i]]

\* a recorder object that can do nothing any more; a live stream nobody holds is
\* counted in leakedStreams
Inert(r) == r.state = "inactive" /\ ~r.stopPending

FreeRecorderSlot(rcs) ==
    CHOOSE r \in Recorders :
        rcs[r].state = "free" /\ \A q \in Recorders : q < r => rcs[q].state # "free"

\* recognition.onresult, lines 73-84: the final results of event.results, if any
VrOnResultTranscript(prev, results) ==
    LET finalTranscript == Flatten(FinalTexts(results))
    IN  IF finalTranscript # EmptyStr THEN finalTranscript ELSE prev

\* no start is in flight, the recording flag is clear and no stop event is due
VrIdle ==
    /\ ~vrIsRecording
    /\ vrPending = << >>
    /\ \A r \in Recorders : ~recorders[r].stopPending

VrLog(name, i) ==
    /\ vrOp' = [name |-> name, inst |-> i, active |-> vrIsRecording]
    /\ UNCHANGED <<appVars, storeVars, pageVars, diagVars>>

RecorderInit ==
    /\ vrIsRecording = FALSE
    /\ vrTranscript = EmptyStr
    /\ vrError = FALSE
    /\ mediaRecorderRef = 0
    /\ vrRecognitionRef = 1
    /\ chunksRef = << >>
    /\ recorders = [r \in Recorders |-> FreeRecorder]
    /\ vrRecs = [i \in Insts |-> IF i = 1 THEN VrNewRec(FALSE) ELSE VrFreeRec]
    /\ vrPending = << >>
    /\ leakedStreams = 0
    /\ vrNotes = << >>
    /\ vrEffDep = FALSE
    /\ vrStarts = 0
    /\ vrOp = [name |-> "mount", inst |-> 0, active |-> FALSE]

\* MediaRecorder.stop() and stream.getTracks().forEach(track => track.stop()) of
\* stopRecording on the recorder the ref points to; cause is history
StopRecorder(rcs, cause) ==
    IF mediaRecorderRef = 0 THEN rcs
    ELSE [rcs EXCEPT ![mediaRecorderRef] =
             [@ EXCEPT !.state = "inactive",
                       !.stopPending = (rcs[mediaRecorderRef].state = "recording")
                                       \/ rcs[mediaRecorderRef].stopPending,
                       !.live = FALSE,
                       !.endedBy = IF rcs[mediaRecorderRef].state = "recording"
                                   THEN cause ELSE rcs[mediaRecorderRef].endedBy,
                       !.heard = IF rcs[mediaRecorderRef].state = "recording"
                                 THEN vrTranscript ELSE rcs[mediaRecorderRef].heard]]

\* stopRecording, lines 237-252, applied to the recorders rcs and recognisers rgs
vrStopRecording(rcs, rgs, cause) ==
    /\ recorders' = StopRecorder(rcs, cause)
    /\ vrRecs' = RecStop(rgs, vrRecognitionRef)
    /\ vrIsRecording' = FALSE


\* the button with isRecording false: startRecording up to its await, lines 147-158
VrClickStart ==
    /\ ~vrIsRecording
    /\ ~vrError
    /\ Len(vrPending) < MaxPending
    /\ vrStarts < MaxStarts
    /\ vrError' = FALSE
    /\ vrStarts' = vrStarts + 1
    /\ vrPending' = Append(vrPending, [cTranscript |-> vrTranscript, sid |-> vrStarts + 1,
                                       cancelled |-> FALSE])
    /\ VrLog("startRecording", 0)
    /\ UNCHANGED <<vrIsRecording, vrTranscript, mediaRecorderRef, vrRecognitionRef,
                   chunksRef, recorders, vrRecs, leakedStreams, vrNotes, vrEffDep>>

\* getUserMedia rejects for the k-th pending call: the catch block, lines 227-234
VrGetUserMediaRejects(k) ==
    /\ k \in 1 .. Len(vrPending)
    /\ vrPending' = RemoveAt(vrPending, k)
    /\ vrError' = TRUE
    /\ VrLog("getUserMediaRejects", 0)
    /\ UNCHANGED <<vrIsRecording, vrTranscript, mediaRecorderRef, vrRecognitionRef,
                   chunksRef, recorders, vrRecs, leakedStreams, vrNotes, vrEffDep,
                   vrStarts>>

\* getUserMedia resolves for the k-th pending call and startRecording runs to its
\* end, lines 160-226. ctorThrows: new MediaRecorder(stream, options) throws (the
\* mimeType is not supported), which the catch block of lines 227-234 handles
VrGetUserMediaResolves(k, ctorThrows) ==
    /\ k \in 1 .. Len(vrPending)
    /\ vrPending' = RemoveAt(vrPending, k)
    /\ IF ctorThrows
       THEN /\ leakedStreams' = leakedStreams + 1
            /\ vrError' = TRUE
            /\ UNCHANGED <<vrIsRecording, mediaRecorderRef, chunksRef, recorders, vrRecs>>
       ELSE LET kept == [r \in Recorders |->
                            IF Inert(recorders[r]) THEN FreeRecorder ELSE recorders[r]]
                n == FreeRecorderSlot(kept)
            IN  /\ \E r \in Recorders : kept[r].state = "free"
                /\ recorders' = [kept EXCEPT
                                   ![n] = NewRecorder(vrPending[k].cTranscript, vrPending[k].sid)]
                /\ mediaRecorderRef' = n
                /\ chunksRef' = << >>
                /\ vrRecs' = IF CanStart(vrRecs, vrRecognitionRef)
                             THEN VrRecStart(vrRecs, vrRecognitionRef)
                             ELSE vrRecs
                /\ vrIsRecording' = TRUE
                /\ UNCHANGED <<leakedStreams, vrError>>
    /\ VrLog(IF vrPending[k].cancelled THEN "lateGrant" ELSE "grant", 0)
    /\ UNCHANGED <<vrTranscript, vrRecognitionRef, vrNotes, vrEffDep, vrStarts>>

\* the button with isRecording true: stopRecording. Marking the calls still
\* awaiting getUserMedia as cancelled is history
VrClickStop ==
    /\ vrIsRecording
    /\ ~vrError
    /\ vrStopRecording(recorders, vrRecs, "user")
    /\ vrPending' = [k \in 1 .. Len(vrPending) |-> [vrPending[k] EXCEPT !.cancelled = TRUE]]
    /\ VrLog("stopRecording", 0)
    /\ UNCHANGED <<vrTranscript, vrError, mediaRecorderRef, vrRecognitionRef, chunksRef,
                   leakedStreams, vrNotes, vrEffDep, vrStarts>>

\* mediaRecorder.ondataavailable, lines 171-175, for a timeslice of recorder r
VrDataAvailable(r) ==
    /\ recorders[r].state = "recording"
    /\ Len(chunksRef) < MaxChunks
    /\ chunksRef' = Append(chunksRef, recorders[r].sid)
    /\ VrLog("dataavailable", r)
    /\ UNCHANGED <<vrIsRecording, vrTranscript, vrError, mediaRecorderRef,
                   vrRecognitionRef, recorders, vrRecs, vrPending, leakedStreams,
                   vrNotes, vrEffDep, vrStarts>>

\* the last dataavailable event of recorder r (hasData: its blob is not empty)
\* followed by mediaRecorder.onstop, lines 178-202
VrOnStop(r, hasData) ==
    /\ recorders[r].stopPending
    /\ LET chunks == IF hasData THEN Append(chunksRef, recorders[r].sid) ELSE chunksRef
           me == recorders[r]
       IN  /\ chunksRef' = chunks
           /\ IF chunks = << >>
              THEN UNCHANGED <<vrNotes, vrTranscript>>
              ELSE /\ vrNotes' = Append(vrNotes,
                          [text |-> IF me.cTranscript # EmptyStr
                                    THEN me.cTranscript ELSE UntitledNote,
                           audio |-> chunks, sid |-> me.sid,
                           endedBy |-> me.endedBy, heard |-> me.heard])
                   /\ vrTranscript' = EmptyStr
           /\ recorders' = [recorders EXCEPT
                              ![r] = IF r = mediaRecorderRef
                                     THEN [me EXCEPT !.stopPending = FALSE]
                                     ELSE FreeRecorder]
           /\ leakedStreams' = IF r # mediaRecorderRef /\ me.live
                               THEN leakedStreams + 1 ELSE leakedStreams
    /\ VrLog(IF recorders[r].endedBy = "user" THEN "onstopUser" ELSE "onstop",
             recorders[r].sid)
    /\ UNCHANGED <<vrIsRecording, vrError, mediaRecorderRef, vrRecognitionRef, vrRecs,
                   vrPending, vrEffDep, vrStarts>>

\* the recorder r fails: it becomes inactive, its error event runs
\* mediaRecorder.onerror, lines 205-210, and its stop event follows
VrRecorderError(r) ==
    /\ recorders[r].state = "recording"
    /\ vrError' = TRUE
    /\ vrStopRecording([recorders EXCEPT ![r] = [@ EXCEPT !.state = "inactive",
                                                          !.stopPending = TRUE,
                                                          !.endedBy = "error",
                                                          !.heard = vrTranscript]],
                       vrRecs, "error")
    /\ VrLog("recorderError", r)
    /\ UNCHANGED <<vrTranscript, mediaRecorderRef, vrRecognitionRef, chunksRef, vrPending,
                   leakedStreams, vrNotes, vrEffDep, vrStarts>>


\* recognition.onresult, lines 73-84, on object i; an object whose handlers the
\* effect cleanup removed delivers its results to nobody
VrRecOnResult(i, results) ==
    /\ vrRecs[i].st = "listening"
    /\ vrRecs[i].attached
    /\ vrTranscript' = VrOnResultTranscript(vrTranscript, results)
    /\ VrLog("onresult", i)
    /\ UNCHANGED <<vrIsRecording, vrError, mediaRecorderRef, vrRecognitionRef, chunksRef,
                   recorders, vrRecs, vrPending, leakedStreams, vrNotes, vrEffDep,
                   vrStarts>>

\* the recogniser i reports an error and ends; recognition.onerror, lines 87-112,
\* runs if it is still attached
VrRecOnError(i, error) ==
    /\ Running(vrRecs[i])
    /\ IF vrRecs[i].attached
       THEN /\ vrError' = TRUE
            /\ vrStopRecording(recorders, [vrRecs EXCEPT ![i].st = "ending"], "error")
       ELSE /\ vrRecs' = [vrRecs EXCEPT ![i].st = "ending"]
            /\ UNCHANGED <<vrError, recorders, vrIsRecording>>
    /\ VrLog(IF error \in TransientErrors THEN "onerrorTransient" ELSE "onerror", i)
    /\ UNCHANGED <<vrTranscript, mediaRecorderRef, vrRecognitionRef, chunksRef, vrPending,
                   leakedStreams, vrNotes, vrEffDep, vrStarts>>

\* the recogniser i ends (after stop(), after an error, or by itself);
\* recognition.onend, lines 115-121, restarts it if it is still attached and
\* its closure has isRecording true
VrRecOnEnd(i) ==
    /\ vrRecs[i].st \in {"listening", "ending"}
    /\ vrRecs' = IF vrRecs[i].attached /\ vrRecs[i].cRec
                 THEN VrRecStart(vrRecs, i)
                 ELSE VrCollect([vrRecs EXCEPT ![i].st = "inactive"], vrRecognitionRef)
    /\ VrLog("onend", i)
    /\ UNCHANGED <<vrIsRecording, vrTranscript, vrError, mediaRecorderRef,
                   vrRecognitionRef, chunksRef, recorders, vrPending, leakedStreams,
                   vrNotes, vrEffDep, vrStarts>>

\* the effect of lines 55-145 re-runs because isRecording changed: its cleanup
\* (closure: the isRecording it last ran with), then its body
VrEffectRun ==
    /\ vrEffDep # vrIsRecording
    /\ LET detached == [vrRecs EXCEPT ![vrRecognitionRef].attached = FALSE]
           stopped == IF vrEffDep THEN RecStop(detached, vrRecognitionRef) ELSE detached
           kept == VrCollect(stopped, 0)
       IN  /\ \E i \in Insts : kept[i].st = "free"
           /\ vrRecs' = [kept EXCEPT ![FreeSlot(kept)] = VrNewRec(vrIsRecording)]
           /\ vrRecognitionRef' = FreeSlot(kept)
    /\ recorders' = IF vrEffDep THEN StopRecorder(recorders, "cleanup") ELSE recorders
    /\ vrEffDep' = vrIsRecording
    /\ VrLog("effect", vrRecognitionRef')
    /\ UNCHANGED <<vrIsRecording, vrTranscript, vrError, mediaRecorderRef, chunksRef,
                   vrPending, leakedStreams, vrNotes, vrStarts>>

RecorderNext ==
    \/ VrClickStart
    \/ \E k \in 1 .. MaxPending : VrGetUserMediaRejects(k)
    \/ \E k \in 1 .. MaxPending, ctorThrows \in BOOLEAN : VrGetUserMediaResolves(k, ctorThrows)
    \/ VrClickStop
    \/ \E r \in Recorders : VrDataAvailable(r)
    \/ \E r \in Recorders, hasData \in BOOLEAN : VrOnStop(r, hasData)
    \/ \E r \in Recorders : VrRecorderError(r)
    \/ \E i \in Insts, results \in SessionEvents : VrRecOnResult(i, results)
    \/ \E i \in Insts, error \in Errors : VrRecOnError(i, error)
    \/ \E i \in Insts : VrRecOnEnd(i)
    \/ VrEffectRun

\* ======================================================================
\* Note store and folder store of VoiceNotesApp
\* (figmacode/components/VoiceNotesApp.tsx, lines 405-507)
\* ======================================================================
\* notes held at the same time
MaxNotes == 2
\* folders held at the same time
MaxFolders == 1
\* the last value Date.now() returns to a store handler
MaxNow == 3
\* localStorage.setItem calls that throw
MaxThrows == 1

\* Math.floor((Date.now() - recordingStartTime) / 1000)
MsPerSecond == 1000

\* recordingDuration: useState(0), reset by startRecording and saveNote
NoDuration == 0

Whitespace == {" ", "\n"}

\* String.prototype.trimStart / trimEnd / trim
RECURSIVE TrimStart(_)
TrimStart(s) ==
    IF s # << >> /\ Head(s) \in Whitespace THEN TrimStart(Tail(s)) ELSE s

RECURSIVE TrimEnd(_)
TrimEnd(s) ==
    IF s # << >> /\ Last(s) \in Whitespace THEN TrimEnd(SubSeq(s, 1, Len(s) - 1)) ELSE s

\* Trim as it would be if it returned its argument
NoTrim(s) == s

Trim(s) == TrimEnd(TrimStart(s))

\* const filter: NoteFilter = {}: no key is set. An unset searchQuery is the empty
\* string (the search box stores `searchQuery || undefined`), favorites unset is false
NoRange == [set |-> FALSE, start |-> NoTime, end |-> NoTime]

NoFilter == [searchQuery |-> EmptyStr, folderId |-> NoFolder, favorites |-> FALSE,
             dateRange |-> NoRange]

\* the state of the stores after the mount effect ran loadSavedData on an empty
\* localStorage
StoreInit ==
    /\ notes = << >>
    /\ folders = << >>
    /\ selectedFolderId = NoFolder
    /\ filter = NoFilter
    /\ storedNotes = Missing
    /\ storedFolders = Missing
    /\ loadWarning = FALSE
    /\ srcNotes = << >>
    /\ srcFolders = << >>
    /\ searchQuery = EmptyStr
    /\ storeOp = [name |-> "loadSavedData", id |-> NoFolder, arg |-> NoArg, threw |-> FALSE]
    /\ storeThrows = 0

\* history bookkeeping of a store handler called for id with the note or the
\* updates arg: threw is true when localStorage.setItem threw and the handler was
\* left by the exception
StoreLogArg(name, id, arg, threw) ==
    /\ threw => storeThrows < MaxThrows
    /\ storeThrows' = IF threw THEN storeThrows + 1 ELSE storeThrows
    /\ storeOp' = [name |-> name, id |-> id, arg |-> arg, threw |-> threw]
    /\ UNCHANGED <<recorderVars, pageVars, diagVars>>

StoreLog(name, id, threw) == StoreLogArg(name, id, NoArg, threw)

\* the duration of saveNote, line 411
Duration ==
    IF recordingStartTime # NoTime
    THEN (clock - recordingStartTime) \div MsPerSecond
    ELSE NoDuration

\* the newNote of saveNote, lines 413-419
NewNote == [id |-> clock, text |-> Trim(transcript), title |-> EmptyStr,
            timestamp |-> clock, folderId |-> selectedFolderId,
            isFavorite |-> "undefined", duration |-> Duration]

\* [...notes, newNote]: the new note goes to the end of the list
AddLast(note, ns) == Append(ns, note)

\* [newNote, ...notes]
Prepend(note, ns) == <<note>> \o ns

\* { ...note, ...updates }
Merge(note, updates) ==
    [f \in DOMAIN note |-> IF f \in DOMAIN updates THEN updates[f] ELSE note[f]]

\* notes.map(note => note.id === id ? { ...note, ...updates } : note)
MapUpdate(ns, id, updates) ==
    [k \in 1 .. Len(ns) |-> IF ns[k].id = id THEN Merge(ns[k], updates) ELSE ns[k]]

\* notes.filter(note => note.id !== id), folders.filter(folder => folder.id !== id)
RemoveId(xs, id) == SelectSeq(xs, LAMBDA x : x.id # id)

\* !note.isFavorite
Not(v) == IF v = "true" THEN "false" ELSE "true"

\* notes.find(n => n.id === id): its index, 0 when there is none
FindNote(ns, id) ==
    IF \E k \in 1 .. Len(ns) : ns[k].id = id
    THEN CHOOSE k \in 1 .. Len(ns) : ns[k].id = id /\ \A j \in 1 .. k - 1 : ns[j].id # id
    ELSE 0

\* saveNote, lines 405-427. fails: localStorage.setItem throws, which leaves the
\* handler after setNotes. tick: Date.now() has advanced when the handler returns
saveNote(fails, tick) ==
    /\ IF Trim(transcript) = EmptyStr
       THEN /\ UNCHANGED <<notes, storedNotes, transcript, clock>>
            /\ StoreLog("saveNoteEmpty", NoFolder, FALSE)
       ELSE /\ Len(notes) < MaxNotes
            /\ clock <= MaxNow
            /\ notes' = Prepend(NewNote, notes)
            /\ clock' = clock + tick
            /\ IF fails
               THEN UNCHANGED <<storedNotes, transcript>>
               ELSE /\ storedNotes' = StringifyNotes(notes')
                    /\ transcript' = EmptyStr
            /\ StoreLogArg("saveNote", clock, NewNote, fails)
    /\ UNCHANGED <<isRecording, recordingStartTime, permissionState, recognitionRef,
                   isRecognitionActive, recs, pendGum, pendCheck, restartTimers,
                   queryPending, effDeps, browserPerm, permissionListener, finals, sessionInst, op>>
    /\ UNCHANGED <<folders, selectedFolderId, filter, storedFolders, loadWarning,
                   srcNotes, srcFolders, searchQuery>>

\* updateNote, lines 429-435
updateNote(id, updates, fails) ==
    /\ notes' = MapUpdate(notes, id, updates)
    /\ storedNotes' = IF fails THEN storedNotes ELSE StringifyNotes(notes')
    /\ UNCHANGED appVars
    /\ UNCHANGED <<folders, selectedFolderId, filter, storedFolders, loadWarning,
                   srcNotes, srcFolders, searchQuery>>

\* deleteNote, lines 437-442
deleteNote(id, fails) ==
    /\ notes' = RemoveId(notes, id)
    /\ storedNotes' = IF fails THEN storedNotes ELSE StringifyNotes(notes')
    /\ StoreLog("deleteNote", id, fails)
    /\ UNCHANGED appVars
    /\ UNCHANGED <<folders, selectedFolderId, filter, storedFolders, loadWarning,
                   srcNotes, srcFolders, searchQuery>>

\* toggleNoteFavorite, lines 444-450
toggleNoteFavorite(id, fails) ==
    /\ FindNote(notes, id) # 0
    /\ LET updates == [isFavorite |-> Not(notes[FindNote(notes, id)].isFavorite)]
       IN  /\ updateNote(id, updates, fails)
           /\ StoreLogArg("toggleNoteFavorite", id, updates, fails)

\* moveNoteToFolder, lines 452-456
moveNoteToFolder(noteId, folderId, fails) ==
    /\ updateNote(noteId, [folderId |-> folderId], fails)
    /\ StoreLogArg("moveNoteToFolder", noteId, [folderId |-> folderId], fails)

\* handleNoteSave, lines 515-527, for the selected note id and the edited fields
handleNoteSave(id, title, text, fails) ==
    /\ LET updates == [title |-> Trim(title), text |-> Trim(text)]
       IN  /\ updateNote(id, updates, fails)
           /\ StoreLogArg("handleNoteSave", id, updates, fails)

\* createFolder, lines 459-467, with the folderData of handleCreateFolder
createFolder(folderData, fails) ==
    /\ folders' = Append(folders, [id |-> clock, name |-> folderData.name,
                                   createdAt |-> folderData.createdAt])
    /\ storedFolders' = IF fails THEN storedFolders ELSE StringifyFolders(folders')

\* updateFolder, lines 469-475
updateFolder(id, updates, fails) ==
    /\ folders' = MapUpdate(folders, id, updates)
    /\ storedFolders' = IF fails THEN storedFolders ELSE StringifyFolders(folders')

\* the notes of ns that are in folder id, by position
Referencing(ns, id) == {k \in 1 .. Len(ns) : ns[k].folderId = id}

\* notes.map(note => note): no folderId is cleared
KeepFolder(ns, id) == ns

\* notes.map(note => note.folderId === id ? { ...note, folderId: undefined } : note)
ClearFolder(ns, id) ==
    [k \in 1 .. Len(ns) |-> IF ns[k].folderId = id
                            THEN Merge(ns[k], [folderId |-> NoFolder]) ELSE ns[k]]

\* deleteFolder, lines 477-487. fails: which setItem throws ("none", "notes",
\* "folders"); the throw of the first leaves the handler before setFolders
deleteFolder(id, fails) ==
    /\ notes' = ClearFolder(notes, id)
    /\ storedNotes' = IF fails = "notes" THEN storedNotes ELSE StringifyNotes(notes')
    /\ folders' = IF fails = "notes" THEN folders ELSE RemoveId(folders, id)
    /\ storedFolders' = IF fails = "none" THEN StringifyFolders(folders') ELSE storedFolders

\* handleCreateFolder of the folder manager (figmacode/components/FolderManager.tsx,
\* lines 68-84) with the typed folderName, calling createFolder
handleCreateFolder(folderName, fails, tick) ==
    /\ IF Trim(folderName) = EmptyStr
       THEN /\ UNCHANGED <<folders, storedFolders, clock>>
            /\ StoreLog("createFolderEmpty", NoFolder, FALSE)
       ELSE /\ Len(folders) < MaxFolders
            /\ clock <= MaxNow
            /\ createFolder([name |-> Trim(folderName), createdAt |-> clock], fails)
            /\ clock' = clock + tick
            /\ StoreLog("createFolder", clock, fails)
    /\ UNCHANGED <<isRecording, transcript, recordingStartTime, permissionState,
                   recognitionRef, isRecognitionActive, recs, pendGum, pendCheck,
                   restartTimers, queryPending, effDeps, browserPerm, permissionListener, finals,
                   sessionInst, op>>
    /\ UNCHANGED <<notes, selectedFolderId, filter, storedNotes, loadWarning, srcNotes,
                   srcFolders, searchQuery>>

\* handleUpdateFolder (FolderManager.tsx, lines 86-98) for the folder being edited
handleUpdateFolder(id, folderName, fails) ==
    /\ IF Trim(folderName) = EmptyStr
       THEN /\ UNCHANGED <<folders, storedFolders>>
            /\ StoreLog("updateFolderEmpty", id, FALSE)
       ELSE /\ updateFolder(id, [name |-> Trim(folderName)], fails)
            /\ StoreLog("updateFolder", id, fails)
    /\ UNCHANGED appVars
    /\ UNCHANGED <<notes, selectedFolderId, filter, storedNotes, loadWarning, srcNotes,
                   srcFolders, searchQuery>>

\* handleDeleteFolder (FolderManager.tsx, lines 100-106): deleteFolder, then the
\* selection is cleared if it was the deleted folder
handleDeleteFolder(id, fails) ==
    /\ deleteFolder(id, fails)
    /\ selectedFolderId' = IF fails = "none" /\ selectedFolderId = id
                           THEN NoFolder ELSE selectedFolderId
    /\ StoreLogArg("deleteFolder", id, [referenced |-> Referencing(notes, id)],
                   fails # "none")
    /\ UNCHANGED appVars
    /\ UNCHANGED <<filter, loadWarning, srcNotes, srcFolders, searchQuery>>

\* onFolderSelect = setSelectedFolderId
selectFolder(id) ==
    /\ selectedFolderId # id
    /\ selectedFolderId' = id
    /\ StoreLog("selectFolder", id, FALSE)
    /\ UNCHANGED appVars
    /\ UNCHANGED <<notes, folders, filter, storedNotes, storedFolders, loadWarning,
                   srcNotes, srcFolders, searchQuery>>

\* the ids of the records of xs
IdsOf(xs) == {xs[k].id : k \in 1 .. Len(xs)}

\* titles and texts typed into the note dialog
EditedTitles == {<<"t", " ">>}

EditedTexts == {<<"b", " ">>}

\* names typed into the folder dialog
FolderNames == {<<"w", " ">>, <<" ">>}

\* the handlers of the two stores, for the setItem calls that may throw: NoteThrows
\* holds the outcomes of a write of the notes (true: it throws), FolderThrows
\* which write of deleteFolder throws
StoreHandlers(NoteThrows, FolderThrows) ==
    \/ \E fails \in NoteThrows, tick \in 0 .. 1 : saveNote(fails, tick)
    \/ \E id \in IdsOf(notes), fails \in NoteThrows : toggleNoteFavorite(id, fails)
    \/ \E id \in IdsOf(notes), f \in IdsOf(folders) \cup {NoFolder},
          fails \in NoteThrows : moveNoteToFolder(id, f, fails)
    \/ \E id \in IdsOf(notes), title \in EditedTitles, text \in EditedTexts,
          fails \in NoteThrows : handleNoteSave(id, title, text, fails)
    \/ \E id \in IdsOf(notes), fails \in NoteThrows : deleteNote(id, fails)
    \/ \E name \in FolderNames, fails \in NoteThrows, tick \in 0 .. 1 :
          handleCreateFolder(name, fails, tick)
    \/ \E id \in IdsOf(folders), name \in FolderNames, fails \in NoteThrows :
          handleUpdateFolder(id, name, fails)
    \/ \E id \in IdsOf(folders), fails \in FolderThrows : handleDeleteFolder(id, fails)
    \/ \E id \in IdsOf(folders) \cup {NoFolder} : selectFolder(id)

\* every write may throw
StoreNext == StoreHandlers(BOOLEAN, {"none", "notes", "folders"})

\* localStorage takes every write
StoreWrittenNext == StoreHandlers({FALSE}, {"none"})

\* ---- the stand-alone recorder page, specified further down
\* the state after the first render: the mount effect has created the recognition
\* object and its permissions.query is in flight
PageInit ==
    /\ frIsRecording = FALSE
    /\ frTranscript = EmptyStr
    /\ frPermissionState = "unknown"
    /\ frIsCheckingPermission = FALSE
    /\ frRec = "inactive"
    /\ frPending = "none"
    /\ frQueryPending = TRUE
    /\ frBrowserPerm \in {"prompt", "granted", "denied"}
    /\ frToast = "none"
    /\ frOp = [name |-> "mount", active |-> FALSE]

\* the page before any of its handlers ran, with the browser permission at prompt
PageIdle == PageInit /\ frBrowserPerm = "prompt"

\* ---- the diagnostics panels, specified further down
\* streams one panel acquires in a run
MaxTestStreams == 3

\* both panels after their first render
PanelInit ==
    /\ testStream = 0
    /\ dbgIsTestingMic = FALSE
    /\ testPhase = "idle"
    /\ testClosure = 0
    /\ testStreams = [k \in 1 .. MaxTestStreams |-> "none"]
    /\ testTimers = {}
    /\ dbgPending = 0
    /\ mediaStreamRef = 0
    /\ dbgIsRecording = FALSE
    /\ dbgStreams = [k \in 1 .. MaxTestStreams |-> "none"]
    /\ panelOp = "mount"

\* ---- the permission wizard and the probes, specified further down
\* the state after the first render of PermissionSetup: the mount effect has
\* called checkInitialPermission, whose permissions.query is in flight
DiagInit ==
    /\ micPerm \in {"prompt", "granted", "denied"}
    /\ probePending = {}
    /\ probeLive = [p \in Probes |-> 0]
    /\ currentStep = 1
    /\ wzPermissionState = "unknown"
    /\ isTestingMic = FALSE
    /\ wzQueryPending = TRUE
    /\ wzListener = FALSE
    /\ hasPermission = FALSE
    /\ diagOp = [name |-> "mount", step |-> 1]
    /\ PanelInit

\* the wizard before any of its handlers ran, with the browser permission at prompt
DiagIdle == DiagInit /\ micPerm = "prompt"

\* ---- the store after a recording session ended
\* a note and a folder as earlier visits of the page left them
StoredNote(id, text, folderId) ==
    [id |-> id, text |-> text, title |-> EmptyStr, timestamp |-> id,
     folderId |-> folderId, isFavorite |-> "undefined", duration |-> NoDuration]

StoredFolder(id, name) == [id |-> id, name |-> name, createdAt |-> id]

\* the contents of localStorage the page is opened with: nothing, or what saveNote
\* and createFolder wrote on earlier visits
StoredNotesItems ==
    {Missing, StringifyNotes(<<StoredNote(2, <<"b">>, NoFolder)>>)}

StoredFoldersItems == {Missing, StringifyFolders(<<StoredFolder(1, <<"w">>)>>)}

\* the page was opened on some localStorage, the mount effect loaded it, and one
\* recording session was started, heard `spoken` and was stopped (the lifecycle
\* reaches this state through ClickStart, GetUserMediaSettles, RecOnResult,
\* ClickStop, RecOnEnd); the effect has not yet re-run for the cleared flag
StoreSpecInit ==
    /\ isRecording = FALSE
    /\ transcript = <<"a", " ">>
    /\ recordingStartTime = NoTime
    /\ permissionState = "granted"
    /\ recognitionRef = 2
    /\ isRecognitionActive = FALSE
    /\ recs = [i \in Insts |-> IF i = 2
                               THEN [st |-> "inactive", cRec |-> TRUE, cGranted |-> TRUE]
                               ELSE FreeRec]
    /\ pendGum = 0
    /\ pendCheck = 0
    /\ restartTimers = 0
    /\ queryPending = FALSE
    /\ effDeps = [isRecording |-> TRUE, permissionState |-> "granted"]
    /\ browserPerm = "granted"
    /\ permissionListener = TRUE
    /\ clock = 3
    /\ finals = <<<<"a">>>>
    /\ sessionInst = 2
    /\ op = [name |-> "onend", inst |-> 1, active |-> FALSE, idle |-> TRUE]
    /\ RecorderInit
    /\ PageIdle
    /\ DiagIdle
    /\ storedNotes \in StoredNotesItems
    /\ storedFolders \in StoredFoldersItems
    /\ notes = IF storedNotes.kind = "json" THEN ParseNotes(storedNotes) ELSE << >>
    /\ folders = IF storedNotes.kind # "malformed" /\ storedFolders.kind = "json"
                 THEN ParseFolders(storedFolders) ELSE << >>
    /\ loadWarning = (storedNotes.kind = "malformed" \/ storedFolders.kind = "malformed")
    /\ selectedFolderId = NoFolder
    /\ filter = NoFilter
    /\ srcNotes = << >>
    /\ srcFolders = << >>
    /\ searchQuery = EmptyStr
    /\ storeOp = [name |-> "loadSavedData", id |-> NoFolder, arg |-> NoArg, threw |-> FALSE]
    /\ storeThrows = 0

\* ======================================================================
\* Filtering and searching the notes
\* (figmacode/components/VoiceNotesApp.tsx, lines 490-507; unnamed/part_001:
\* figmacode/components/NotesSearch; components/NotesSearch.tsx)
\* ======================================================================
\* String.prototype.toLowerCase, on the letters the texts are written with
LowerChar(c) ==
    CASE c = "A" -> "a"
      [] c = "B" -> "b"
      [] OTHER -> c

\* the string as it is: no letter is changed
KeepCase(s) == s

ToLowerCase(s) == [k \in 1 .. Len(s) |-> LowerChar(s[k])]

\* String.prototype.includes
Includes(s, q) == \E i \in 0 .. Len(s) - Len(q) : SubSeq(s, i + 1, i + Len(q)) = q

\* the callback of notes.filter, lines 490-506, for the filter f: each test returns
\* false on its own, a criterion that is undefined (or empty) is skipped
Keeps(note, f) ==
    IF f.searchQuery # EmptyStr
       /\ ~Includes(ToLowerCase(note.text), ToLowerCase(f.searchQuery))
    THEN FALSE
    ELSE IF f.folderId # NoFolder /\ note.folderId # f.folderId
    THEN FALSE
    ELSE IF f.favorites /\ note.isFavorite # "true"
    THEN FALSE
    ELSE IF f.dateRange.set
            /\ (note.timestamp < f.dateRange.start \/ note.timestamp > f.dateRange.end)
    THEN FALSE
    ELSE TRUE

\* const filteredNotes = notes.filter(...)
filteredNotes == SelectSeq(notes, LAMBDA note : Keeps(note, filter))

\* history bookkeeping of a handler of the search panel
FilterLog(name) ==
    /\ storeOp' = [name |-> name, id |-> NoFolder, arg |-> NoArg, threw |-> FALSE]
    /\ UNCHANGED <<appVars, recorderVars, pageVars, diagVars>>
    /\ UNCHANGED <<notes, folders, selectedFolderId, storedNotes, storedFolders,
                   loadWarning, srcNotes, srcFolders, searchQuery, storeThrows>>

\* handleSearchChange (unnamed/part_001, lines 23-25)
handleSearchChange(query) ==
    /\ filter' = [filter EXCEPT !.searchQuery = query]
    /\ FilterLog("handleSearchChange")

\* handleFolderFilter, lines 27-32
handleFolderFilter(folderId) ==
    /\ filter' = [filter EXCEPT !.folderId = IF filter.folderId = folderId
                                             THEN NoFolder ELSE folderId]
    /\ FilterLog("handleFolderFilter")

\* handleFavoritesFilter, lines 34-39
handleFavoritesFilter ==
    /\ filter' = [filter EXCEPT !.favorites = IF filter.favorites THEN FALSE ELSE TRUE]
    /\ FilterLog("handleFavoritesFilter")

\* handleDateRangeFilter, lines 41-52, with the days picked in the calendar
handleDateRangeFilter(from, to) ==
    /\ filter' = IF from # NoTime /\ to # NoTime
                 THEN [filter EXCEPT !.dateRange = [set |-> TRUE, start |-> from,
                                                    end |-> to]]
                 ELSE filter
    /\ FilterLog("handleDateRangeFilter")

\* clearFilters, lines 54-57
clearFilters ==
    /\ filter' = NoFilter
    /\ FilterLog("clearFilters")

\* texts typed into a search box
Queries == {EmptyStr, <<"a">>, <<"A", "B">>}

\* the ranges the calendar hands over: both days, or only the first
PickedRanges == {<<2, 3>>, <<4, 4>>, <<2, NoTime>>}

FilterNext ==
    \/ \E query \in Queries : handleSearchChange(query)
    \/ \E id \in IdsOf(folders) : handleFolderFilter(id)
    \/ handleFavoritesFilter
    \/ \E range \in PickedRanges : handleDateRangeFilter(range[1], range[2])
    \/ clearFilters

\* the notes of a list the filters are tried on, newest first
FilterNote(id, text, folderId, isFavorite) ==
    [id |-> id, text |-> text, title |-> EmptyStr, timestamp |-> id,
     folderId |-> folderId, isFavorite |-> isFavorite, duration |-> NoDuration]

FilterNotePool ==
    <<FilterNote(4, <<"a", "B">>, NoFolder, "true"),
      FilterNote(3, <<"c">>, 1, "false"),
      FilterNote(2, <<"b", "a">>, 1, "true"),
      FilterNote(1, <<"A", "b">>, NoFolder, "undefined")>>

\* the sub-lists of the pool
FilterNoteLists ==
    {SelectSeq(FilterNotePool, LAMBDA note : note.id \in ids) : ids \in SUBSET (1 .. 4)}

\* ---- the search box of the src application (components/NotesSearch.tsx)
\* the useMemo of lines 11-17
SearchFilteredNotes ==
    IF Trim(searchQuery) = EmptyStr THEN << >>
    ELSE SelectSeq(srcNotes, LAMBDA note :
            Includes(ToLowerCase(note.text), ToLowerCase(searchQuery)))

\* onChange of the search box: setSearchQuery(e.target.value)
setSearchQuery(query) ==
    /\ searchQuery # query
    /\ searchQuery' = query
    /\ storeOp' = [name |-> "setSearchQuery", id |-> NoFolder, arg |-> NoArg,
                   threw |-> FALSE]
    /\ UNCHANGED <<appVars, recorderVars, pageVars, diagVars>>
    /\ UNCHANGED <<notes, folders, selectedFolderId, filter, storedNotes, storedFolders,
                   loadWarning, srcNotes, srcFolders, storeThrows>>

\* ======================================================================
\* The timeline of the notes (figmacode/components/NotesHistoryTimeline.tsx)
\* ======================================================================
\* clock values of one calendar day (86400000 ms in the code); every day has the
\* same length, so the clock changes of daylight saving time are not modelled
TicksPerDay == 2
\* the last timestamp a note of the timeline carries
MaxStamp == 5

\* new Date(timestamp).toDateString(): the text names the local calendar day
ToDateString(timestamp) == [day |-> timestamp \div TicksPerDay]

\* new Date(dateString).getTime(): local midnight of the day the text names
DateStringTime(dateString) == dateString.day * TicksPerDay

\* the keys of groupedNotes in the order the reduce of lines 27-34 inserts them
RECURSIVE GroupKeys(_)
GroupKeys(ns) ==
    IF ns = << >> THEN << >>
    ELSE LET rest == GroupKeys(SubSeq(ns, 1, Len(ns) - 1))
             date == ToDateString(Last(ns).timestamp)
         IN  IF \E k \in 1 .. Len(rest) : rest[k] = date THEN rest
             ELSE Append(rest, date)

\* the reduce without the test of line 29: every note of a day starts the array
\* of its day again, so only the last one stays
ResetGroup(ns, date) ==
    LET group == SelectSeq(ns, LAMBDA note : ToDateString(note.timestamp) = date)
    IN  IF group = << >> THEN << >> ELSE <<Last(group)>>

\* groupedNotes[date]: the notes pushed under the key, in list order
GroupedNotes(ns, date) ==
    SelectSeq(ns, LAMBDA note : ToDateString(note.timestamp) = date)

\* the items as they are: nothing is sorted
KeepOrder(items) == items

\* Array.prototype.sort with the comparator (a, b) => b.time - a.time on items
\* that carry their time: descending, equal times keep their order
RECURSIVE SortDescending(_)
SortDescending(items) ==
    IF items = << >> THEN << >>
    ELSE LET sorted == SortDescending(SubSeq(items, 1, Len(items) - 1))
             x == Last(items)
             before == SelectSeq(sorted, LAMBDA y : y.time >= x.time)
             after == SelectSeq(sorted, LAMBDA y : y.time < x.time)
         IN  before \o <<x>> \o after

\* sortedDates, lines 36-38
SortedDates(ns) ==
    LET keys == GroupKeys(ns)
        items == [k \in 1 .. Len(keys) |->
                     [time |-> DateStringTime(keys[k]), value |-> keys[k]]]
        sorted == SortDescending(items)
    IN  [k \in 1 .. Len(sorted) |-> sorted[k].value]

\* groupedNotes[date].sort(...), lines 92-93
SortedGroup(ns, date) ==
    LET group == GroupedNotes(ns, date)
        items == [k \in 1 .. Len(group) |->
                     [time |-> group[k].timestamp, value |-> group[k]]]
        sorted == SortDescending(items)
    IN  [k \in 1 .. Len(sorted) |-> sorted[k].value]

\* formatDate, lines 40-53, at the time now
formatDate(dateString, now) ==
    IF dateString = ToDateString(now) THEN "Today"
    ELSE IF dateString = ToDateString(now - TicksPerDay) THEN "Yesterday"
    ELSE "date"

\* what the component renders for the notes ns at the time now: one section for
\* each date of sortedDates, with its header and its notes
Timeline(ns, now) ==
    LET dates == SortedDates(ns)
    IN  [k \in 1 .. Len(dates) |->
            [date |-> dates[k], header |-> formatDate(dates[k], now),
             notes |-> SortedGroup(ns, dates[k])]]

\* a note list the timeline is rendered for: the notes of some earlier visits, in
\* any order (the stored list is shown as it is read)
TimelineNote(timestamp) ==
    [id |-> timestamp, text |-> <<"a">>, title |-> EmptyStr, timestamp |-> timestamp,
     folderId |-> NoFolder, isFavorite |-> "undefined", duration |-> NoDuration]

TimelineLists ==
    UNION {[1 .. n -> {TimelineNote(t) : t \in 1 .. MaxStamp}] : n \in 0 .. 3}

\* the menu of a timeline card: onNoteDelete and onNoteFavorite
TimelineNext ==
    \/ \E id \in IdsOf(notes) : deleteNote(id, FALSE)
    \/ \E id \in IdsOf(notes) : toggleNoteFavorite(id, FALSE)

\* ======================================================================
\* Note list and folder list of the src application
\* (unnamed/part_004: src/components/VoiceNotesApp; components/FolderManager.tsx)
\* Neither component reads or writes localStorage.
\* ======================================================================
\* history bookkeeping of a handler of the src application
SrcLog(name, id, arg) ==
    /\ storeOp' = [name |-> name, id |-> id, arg |-> arg, threw |-> FALSE]
    /\ UNCHANGED <<recorderVars, pageVars, diagVars>>
    /\ UNCHANGED <<isRecording, transcript, recordingStartTime, permissionState,
                   recognitionRef, isRecognitionActive, recs, pendGum, pendCheck,
                   restartTimers, queryPending, effDeps, browserPerm, permissionListener, finals,
                   sessionInst, op>>
    /\ UNCHANGED <<notes, folders, selectedFolderId, filter, storedNotes, storedFolders,
                   loadWarning, storeThrows>>
    /\ UNCHANGED searchQuery

\* the note the recorder hands to onNewNote (src/components/VoiceRecorder.tsx,
\* lines 188-195) for the transcript text
RecordedNote(text) ==
    [id |-> clock, text |-> IF text # EmptyStr THEN text ELSE UntitledNote,
     timestamp |-> clock, folderId |-> NoFolder]

\* addNote, lines 20-22, called by the recorder's onstop
addNote(note, tick) ==
    /\ Len(srcNotes) < MaxNotes
    /\ clock <= MaxNow
    /\ srcNotes' = <<note>> \o srcNotes
    /\ clock' = clock + tick
    /\ SrcLog("addNote", note.id, note)
    /\ UNCHANGED srcFolders

\* deleteNote, lines 24-26
srcDeleteNote(id) ==
    /\ srcNotes' = RemoveId(srcNotes, id)
    /\ SrcLog("srcDeleteNote", id, NoArg)
    /\ UNCHANGED <<srcFolders, clock>>

\* updateNote, lines 28-34, called by the timeline's text box and by the folder
\* manager's check box
srcUpdateNote(id, updates) ==
    /\ srcNotes' = MapUpdate(srcNotes, id, updates)
    /\ SrcLog("srcUpdateNote", id, updates)
    /\ UNCHANGED <<srcFolders, clock>>

\* createFolder of components/FolderManager.tsx, lines 19-29
srcCreateFolder(newFolderName, tick) ==
    /\ IF Trim(newFolderName) = EmptyStr
       THEN /\ UNCHANGED <<srcFolders, clock>>
            /\ SrcLog("srcCreateFolderEmpty", NoFolder, NoArg)
       ELSE /\ Len(srcFolders) < MaxFolders
            /\ clock <= MaxNow
            /\ srcFolders' = Append(srcFolders,
                                    [id |-> clock, name |-> Trim(newFolderName)])
            /\ clock' = clock + tick
            /\ SrcLog("srcCreateFolder", clock, NoArg)
    /\ UNCHANGED srcNotes

\* deleteFolder of components/FolderManager.tsx, lines 31-42: one updateNote for
\* every note of the folder, then the folder is filtered out
srcDeleteFolder(folderId) ==
    /\ srcNotes' = ClearFolder(srcNotes, folderId)
    /\ srcFolders' = RemoveId(srcFolders, folderId)
    /\ SrcLog("srcDeleteFolder", folderId, [referenced |-> Referencing(srcNotes, folderId)])
    /\ UNCHANGED clock

\* transcripts of the recorder, typed texts and typed folder names
SrcTranscripts == {EmptyStr, <<"a">>}

SrcTexts == {<<"b">>}

SrcNext ==
    \/ \E text \in SrcTranscripts, tick \in 0 .. 1 : addNote(RecordedNote(text), tick)
    \/ \E id \in IdsOf(srcNotes) : srcDeleteNote(id)
    \/ \E id \in IdsOf(srcNotes), text \in SrcTexts : srcUpdateNote(id, [text |-> text])
    \/ \E id \in IdsOf(srcNotes), f \in IdsOf(srcFolders) \cup {NoFolder} :
          srcUpdateNote(id, [folderId |-> f])
    \/ \E name \in FolderNames, tick \in 0 .. 1 : srcCreateFolder(name, tick)
    \/ \E id \in IdsOf(srcFolders) : srcDeleteFolder(id)
    \/ \E query \in Queries : setSearchQuery(query)

\* ======================================================================
\* The stand-alone recorder page (figmacode/components/VoiceRecorder.tsx)
\* ======================================================================
\* history bookkeeping of a handler of the page
FrLog(name) ==
    /\ frOp' = [name |-> name, active |-> frIsRecording]
    /\ UNCHANGED <<appVars, recorderVars, storeVars, diagVars>>

\* checkMicrophonePermission (lines 84-100): the query resolves
FrPermissionQueryResolves ==
    /\ frQueryPending
    /\ frQueryPending' = FALSE
    /\ frPermissionState' = frBrowserPerm
    /\ FrLog("permissionQuery")
    /\ UNCHANGED <<frIsRecording, frTranscript, frIsCheckingPermission, frRec,
                   frPending, frBrowserPerm, frToast>>

\* the try / catch of startRecording (lines 131-138); toast is the toast shown so
\* far by the handler. recognition.start() throws on an object that is not inactive
FrStartTry(toast) ==
    /\ frTranscript' = EmptyStr
    /\ IF frRec = "inactive"
       THEN /\ frIsRecording' = TRUE
            /\ frRec' = "started"
            /\ frToast' = toast
       ELSE /\ frIsRecording' = FALSE
            /\ frRec' = frRec
            /\ frToast' = "Failed to start recording"

\* the record button with isRecording false (lines 203-204): startRecording up to
\* its await, or to its end when no permission request is needed
FrClickStart ==
    /\ ~frIsRecording
    /\ frPermissionState # "denied"
    /\ ~frIsCheckingPermission
    /\ IF frPermissionState \in {"prompt", "unknown"}
       THEN /\ frIsCheckingPermission' = TRUE
            /\ frPending' = "start"
            /\ UNCHANGED <<frIsRecording, frTranscript, frRec, frToast>>
       ELSE /\ FrStartTry(frToast)
            /\ UNCHANGED <<frIsCheckingPermission, frPending>>
    /\ FrLog("startRecording")
    /\ UNCHANGED <<frPermissionState, frQueryPending, frBrowserPerm>>

\* the Enable Microphone button (lines 236-244): requestMicrophonePermission alone
FrEnableMicrophone ==
    /\ frPermissionState = "prompt"
    /\ ~frIsCheckingPermission
    /\ frIsCheckingPermission' = TRUE
    /\ frPending' = "enable"
    /\ FrLog("enableMicrophone")
    /\ UNCHANGED <<frIsRecording, frTranscript, frPermissionState, frRec,
                   frQueryPending, frBrowserPerm, frToast>>

\* getUserMedia settles: the rest of requestMicrophonePermission (lines 105-116),
\* then the rest of the startRecording that awaited it (lines 128-138). That
\* startRecording reads the permissionState of the render it was created in, which
\* is 'prompt' or 'unknown' (line 126), so its test of line 128 never returns
FrGetUserMediaSettles(allow) ==
    /\ frPending # "none"
    /\ frBrowserPerm = "granted" => allow
    /\ frBrowserPerm = "denied" => ~allow
    /\ frPermissionState' = IF allow THEN "granted" ELSE "denied"
    /\ frBrowserPerm' = IF allow THEN "granted" ELSE "denied"
    /\ frIsCheckingPermission' = FALSE
    /\ frPending' = "none"
    /\ IF frPending = "start"
       THEN FrStartTry(IF allow THEN "Microphone access granted"
                       ELSE "Microphone access denied")
       ELSE /\ frToast' = IF allow THEN "Microphone access granted"
                          ELSE "Microphone access denied"
            /\ UNCHANGED <<frIsRecording, frTranscript, frRec>>
    /\ frOp' = [name |-> IF allow THEN "permissionGranted" ELSE "permissionDenied",
                active |-> frIsRecording, forStart |-> frPending = "start"]
    /\ UNCHANGED <<appVars, recorderVars, storeVars, diagVars>>
    /\ UNCHANGED frQueryPending

\* the record button with isRecording true: stopRecording (lines 141-145)
FrClickStop ==
    /\ frIsRecording
    /\ frPermissionState # "denied"
    /\ ~frIsCheckingPermission
    /\ frIsRecording' = FALSE
    /\ frRec' = IF frRec = "started" THEN "stopping" ELSE frRec
    /\ FrLog("stopRecording")
    /\ UNCHANGED <<frTranscript, frPermissionState, frIsCheckingPermission, frPending,
                   frQueryPending, frBrowserPerm, frToast>>

\* recognition.onresult (lines 38-52) with the text of the new results
FrRecOnResult(text) ==
    /\ frRec = "started"
    /\ frBrowserPerm = "granted"
    /\ Len(frTranscript) + Len(text) <= MaxLen
    /\ frTranscript' = frTranscript \o text
    /\ FrLog("onresult")
    /\ UNCHANGED <<frIsRecording, frPermissionState, frIsCheckingPermission, frRec,
                   frPending, frQueryPending, frBrowserPerm, frToast>>

\* recognition.onerror (lines 54-64); the browser ends the recognition after it.
\* A started recognition without microphone permission fails with not-allowed
FrRecOnError(error) ==
    /\ frRec = "started"
    /\ (error = "not-allowed") = (frBrowserPerm # "granted")
    /\ frPermissionState' = IF error = "not-allowed" THEN "denied" ELSE frPermissionState
    /\ frBrowserPerm' = IF error = "not-allowed" THEN "denied" ELSE frBrowserPerm
    /\ frToast' = IF error = "not-allowed" THEN "Microphone access required"
                  ELSE IF error = "no-speech" THEN "No speech detected"
                  ELSE "Recognition error"
    /\ frIsRecording' = FALSE
    /\ frRec' = "stopping"
    /\ FrLog("onerror")
    /\ UNCHANGED <<frTranscript, frIsCheckingPermission, frPending, frQueryPending>>

\* recognition.onend (lines 66-68)
FrRecOnEnd ==
    /\ \/ frRec = "stopping"
       \/ frRec = "started" /\ frBrowserPerm = "granted"
    /\ frIsRecording' = FALSE
    /\ frRec' = "inactive"
    /\ FrLog("onend")
    /\ UNCHANGED <<frTranscript, frPermissionState, frIsCheckingPermission, frPending,
                   frQueryPending, frBrowserPerm, frToast>>

\* texts of the results of one result event
PageTexts == {<<"a">>, <<"b", " ">>}

PageNext ==
    \/ FrPermissionQueryResolves
    \/ FrClickStart
    \/ FrEnableMicrophone
    \/ \E allow \in BOOLEAN : FrGetUserMediaSettles(allow)
    \/ FrClickStop
    \/ \E text \in PageTexts : FrRecOnResult(text)
    \/ \E error \in Errors : FrRecOnError(error)
    \/ FrRecOnEnd

\* ======================================================================
\* The permission probes and the permission wizard
\* (unnamed/part_000: SimpleMicrophoneAccess; unnamed/part_001: PermissionSetup;
\*  components/MicrophoneDebugger.tsx: loadDevices)
\* ======================================================================
\* live probe streams the model follows at most
MaxProbeStreams == 2

\* history bookkeeping of a handler of the wizard or of a probe; step is the
\* step the wizard showed when the handler started
DiagLog(name) ==
    /\ diagOp' = [name |-> name, step |-> currentStep]
    /\ UNCHANGED <<appVars, recorderVars, storeVars, pageVars, panelVars>>

\* how a getUserMedia call can settle: with a stream, rejected because the
\* permission is refused, or rejected because no device can be opened
Outcomes == {"stream", "NotAllowedError", "NotFoundError"}

\* the outcomes the browser can produce under the permission perm
Possible(perm, outcome) ==
    /\ perm = "granted" => outcome # "NotAllowedError"
    /\ perm = "denied" => outcome = "NotAllowedError"

\* the permission after the user has answered the prompt of a getUserMedia call
Answered(perm, outcome) ==
    IF perm # "prompt" \/ outcome = "NotFoundError" THEN perm
    ELSE IF outcome = "stream" THEN "granted" ELSE "denied"

\* checkInitialPermission (part_001 222-249): the permissions.query resolves
checkInitialPermission ==
    /\ wzQueryPending
    /\ wzQueryPending' = FALSE
    /\ wzPermissionState' = micPerm
    /\ currentStep' = IF micPerm = "granted" THEN 4
                      ELSE IF micPerm = "denied" THEN 2 ELSE currentStep
    /\ wzListener' = TRUE
    /\ DiagLog("checkInitialPermission")
    /\ UNCHANGED <<micPerm, probePending, probeLive, isTestingMic, hasPermission>>

\* the user changes the permission in the browser's settings; the 'change'
\* listener of checkInitialPermission (part_001 238-244) runs if it is attached
permissionChange(state) ==
    /\ state # micPerm
    /\ micPerm' = state
    /\ IF wzListener
       THEN /\ wzPermissionState' = state
            /\ currentStep' = IF state = "granted" THEN 4 ELSE currentStep
       ELSE UNCHANGED <<wzPermissionState, currentStep>>
    /\ DiagLog("permissionChange")
    /\ UNCHANGED <<probePending, probeLive, isTestingMic, wzQueryPending, wzListener,
                   hasPermission>>

\* testMicrophonePermission (part_001 251-283) up to its await: the Test button of
\* step 1 (line 478) or of step 3 (line 576), disabled while a test runs
testMicrophonePermission ==
    /\ currentStep \in {1, 3}
    /\ ~isTestingMic
    /\ isTestingMic' = TRUE
    /\ probePending' = probePending \cup {"testMicrophonePermission"}
    /\ DiagLog("testMicrophonePermission")
    /\ UNCHANGED <<micPerm, probeLive, currentStep, wzPermissionState, wzQueryPending,
                   wzListener, hasPermission>>

\* testMicrophonePermission after its await (part_001 263-282)
testMicrophonePermissionSettles(outcome) ==
    /\ "testMicrophonePermission" \in probePending
    /\ Possible(micPerm, outcome)
    /\ probePending' = probePending \ {"testMicrophonePermission"}
    /\ micPerm' = Answered(micPerm, outcome)
    /\ IF outcome = "stream"
       THEN /\ probeLive' = StopTracks(AcquireStream(probeLive, "testMicrophonePermission"),
                                       "testMicrophonePermission")
            /\ wzPermissionState' = "granted"
            /\ currentStep' = 4
       ELSE /\ probeLive' = probeLive
            /\ IF outcome = "NotAllowedError"
               THEN wzPermissionState' = "denied" /\ currentStep' = 2
               ELSE UNCHANGED <<wzPermissionState, currentStep>>
    /\ isTestingMic' = FALSE
    /\ DiagLog(IF outcome = "stream" THEN "testGranted" ELSE "testFailed")
    /\ UNCHANGED <<wzQueryPending, wzListener, hasPermission>>

\* the buttons that show the reset instructions (part_001 505, 614), offered on
\* step 1 and step 3 while the permission state is 'denied'
showResetInstructions ==
    /\ currentStep \in {1, 3}
    /\ wzPermissionState = "denied"
    /\ currentStep' = 2
    /\ DiagLog("showResetInstructions")
    /\ UNCHANGED <<micPerm, probePending, probeLive, wzPermissionState, isTestingMic,
                   wzQueryPending, wzListener, hasPermission>>

\* the button of step 2 that leads to the test (part_001 548)
continueToTest ==
    /\ currentStep = 2
    /\ currentStep' = 3
    /\ DiagLog("continueToTest")
    /\ UNCHANGED <<micPerm, probePending, probeLive, wzPermissionState, isTestingMic,
                   wzQueryPending, wzListener, hasPermission>>

\* requestPermission of SimpleMicrophoneAccess (part_000 10-18) up to its await;
\* the component is rendered while hasPermission is false (part_004 36-38)
requestPermission ==
    /\ ~hasPermission
    /\ "requestPermission" \notin probePending
    /\ probePending' = probePending \cup {"requestPermission"}
    /\ DiagLog("requestPermission")
    /\ UNCHANGED <<micPerm, probeLive, currentStep, wzPermissionState, isTestingMic,
                   wzQueryPending, wzListener, hasPermission>>

\* requestPermission after its await (part_000 13-17); onPermissionGranted is
\* setHasPermission(true) of part_004 line 37
requestPermissionSettles(outcome) ==
    /\ "requestPermission" \in probePending
    /\ Possible(micPerm, outcome)
    /\ probePending' = probePending \ {"requestPermission"}
    /\ micPerm' = Answered(micPerm, outcome)
    /\ IF outcome = "stream"
       THEN /\ probeLive' = StopTracks(AcquireStream(probeLive, "requestPermission"),
                                       "requestPermission")
            /\ hasPermission' = TRUE
       ELSE UNCHANGED <<probeLive, hasPermission>>
    /\ DiagLog(IF outcome = "stream" THEN "requestGranted" ELSE "requestFailed")
    /\ UNCHANGED <<currentStep, wzPermissionState, isTestingMic, wzQueryPending,
                   wzListener>>

\* loadDevices of the diagnostics component (components/MicrophoneDebugger.tsx
\* 25-37) up to its first await; the mount effect (18-23) calls it each time the
\* guide shows the component
loadDevices ==
    /\ "loadDevices" \notin probePending
    /\ probeLive["loadDevices"] < MaxProbeStreams
    /\ probePending' = probePending \cup {"loadDevices"}
    /\ DiagLog("loadDevices")
    /\ UNCHANGED <<micPerm, probeLive, currentStep, wzPermissionState, isTestingMic,
                   wzQueryPending, wzListener, hasPermission>>

\* loadDevices after its first await: the stream getUserMedia resolved with is
\* dropped (line 27), none of its tracks is stopped
loadDevicesSettles(outcome) ==
    /\ "loadDevices" \in probePending
    /\ Possible(micPerm, outcome)
    /\ probePending' = probePending \ {"loadDevices"}
    /\ micPerm' = Answered(micPerm, outcome)
    /\ probeLive' = IF outcome = "stream" THEN AcquireStream(probeLive, "loadDevices")
                    ELSE probeLive
    /\ DiagLog(IF outcome = "stream" THEN "devicesLoaded" ELSE "devicesFailed")
    /\ UNCHANGED <<currentStep, wzPermissionState, isTestingMic, wzQueryPending,
                   wzListener, hasPermission>>

\* the wizard
WizardNext ==
    \/ checkInitialPermission
    \/ \E state \in {"prompt", "granted", "denied"} : permissionChange(state)
    \/ testMicrophonePermission
    \/ \E outcome \in Outcomes : testMicrophonePermissionSettles(outcome)
    \/ showResetInstructions
    \/ continueToTest

\* the probes: the three above, and requestMicrophonePermission as startRecording
\* of VoiceNotesApp calls it
ProbeNext ==
    \/ testMicrophonePermission
    \/ \E outcome \in Outcomes : testMicrophonePermissionSettles(outcome)
    \/ continueToTest
    \/ requestPermission
    \/ \E outcome \in Outcomes : requestPermissionSettles(outcome)
    \/ loadDevices
    \/ \E outcome \in Outcomes : loadDevicesSettles(outcome)
    \/ ClickStart
    \/ \E allow \in BOOLEAN : GetUserMediaSettles(allow)
    \/ CheckResolves

\* ======================================================================
\* The diagnostics panels
\* (figmacode/components/MicrophoneDebugger.tsx: testMicrophoneAccess,
\* stopMicrophoneTest; components/MicrophoneDebugger.tsx: startRecording,
\* stopRecording)
\* ======================================================================
\* history bookkeeping of a handler of a panel
PanelLog(name) ==
    /\ panelOp' = name
    /\ UNCHANGED <<appVars, recorderVars, storeVars, pageVars>>
    /\ UNCHANGED <<probePending, probeLive, currentStep, wzPermissionState, isTestingMic,
                   wzQueryPending, wzListener, hasPermission, diagOp>>

\* the stream a getUserMedia call resolves with: one that did not exist before
Fresh(streams) == Cardinality({k \in DOMAIN streams : streams[k] # "none"}) + 1

\* track.stop() on every track of the stream id; stopping a stopped stream changes
\* nothing
StopStream(streams, id) ==
    IF id = 0 THEN streams ELSE [streams EXCEPT ![id] = "stopped"]

\* ---- the figmacode panel
\* the Test button (lines 441-443) while it shows the test: testMicrophoneAccess
\* up to its first await (lines 73-86)
testMicrophoneAccess ==
    /\ testStream = 0
    /\ ~dbgIsTestingMic
    /\ Fresh(testStreams) <= MaxTestStreams
    /\ dbgIsTestingMic' = TRUE
    /\ testPhase' = "getUserMedia"
    /\ PanelLog("testMicrophoneAccess")
    /\ UNCHANGED <<micPerm, testStream, testClosure, testStreams, testTimers, dbgPending,
                   mediaStreamRef, dbgIsRecording, dbgStreams>>

\* getUserMedia settles: setTestStream(stream) (line 88), or the catch block
\* (103-140); either way the handler awaits checkSystemCapabilities next
testMicrophoneAccessSettles(outcome) ==
    /\ testPhase = "getUserMedia"
    /\ Possible(micPerm, outcome)
    /\ micPerm' = Answered(micPerm, outcome)
    /\ IF outcome = "stream"
       THEN /\ testStreams' = [testStreams EXCEPT ![Fresh(testStreams)] = "live"]
            /\ testStream' = Fresh(testStreams)
            /\ testClosure' = Fresh(testStreams)
       ELSE UNCHANGED <<testStreams, testStream, testClosure>>
    /\ testPhase' = "checkSystemCapabilities"
    /\ PanelLog(IF outcome = "stream" THEN "testStreamSet" ELSE "testFailed")
    /\ UNCHANGED <<dbgIsTestingMic, testTimers, dbgPending, mediaStreamRef,
                   dbgIsRecording, dbgStreams>>

\* the awaited checkSystemCapabilities resolves (lines 92, 143): after a
\* successful test the 3-second timer is set for the handler's stream (95-101);
\* the finally block clears isTestingMic (145)
checkSystemCapabilitiesResolves ==
    /\ testPhase = "checkSystemCapabilities"
    /\ testTimers' = IF testClosure = 0 THEN testTimers ELSE testTimers \cup {testClosure}
    /\ testClosure' = 0
    /\ testPhase' = "idle"
    /\ dbgIsTestingMic' = FALSE
    /\ PanelLog("checkSystemCapabilitiesResolves")
    /\ UNCHANGED <<micPerm, testStream, testStreams, dbgPending, mediaStreamRef,
                   dbgIsRecording, dbgStreams>>

\* the timer of the stream id expires (lines 95-101): the stream of the closure
\* is stopped and testStream is set to null
autoStop(id) ==
    /\ id \in testTimers
    /\ testTimers' = testTimers \ {id}
    /\ testStreams' = StopStream(testStreams, id)
    /\ testStream' = 0
    /\ PanelLog("autoStop")
    /\ UNCHANGED <<micPerm, dbgIsTestingMic, testPhase, testClosure, dbgPending,
                   mediaStreamRef, dbgIsRecording, dbgStreams>>

\* the Test button while it shows the stop (lines 441-443): stopMicrophoneTest
\* (149-155)
stopMicrophoneTest ==
    /\ testStream # 0
    /\ ~dbgIsTestingMic
    /\ testStreams' = StopStream(testStreams, testStream)
    /\ testStream' = 0
    /\ PanelLog("stopMicrophoneTest")
    /\ UNCHANGED <<micPerm, dbgIsTestingMic, testPhase, testClosure, testTimers,
                   dbgPending, mediaStreamRef, dbgIsRecording, dbgStreams>>

\* ---- the src panel
\* the button of line 119 while isRecording is false: startRecording up to its
\* await (lines 39-45); the button is not disabled while the call is in flight
dbgStartRecording ==
    /\ ~dbgIsRecording
    /\ dbgPending < MaxPending
    /\ Fresh(dbgStreams) + dbgPending <= MaxTestStreams
    /\ dbgPending' = dbgPending + 1
    /\ PanelLog("startRecording")
    /\ UNCHANGED <<micPerm, testStream, dbgIsTestingMic, testPhase, testClosure,
                   testStreams, testTimers, mediaStreamRef, dbgIsRecording, dbgStreams>>

\* startRecording after its await (lines 47-73): the stream is stored in the ref
\* and isRecording is set; the catch block only sets the error text
dbgStartRecordingSettles(outcome) ==
    /\ dbgPending > 0
    /\ Possible(micPerm, outcome)
    /\ micPerm' = Answered(micPerm, outcome)
    /\ dbgPending' = dbgPending - 1
    /\ IF outcome = "stream"
       THEN /\ dbgStreams' = [dbgStreams EXCEPT ![Fresh(dbgStreams)] = "live"]
            /\ mediaStreamRef' = Fresh(dbgStreams)
            /\ dbgIsRecording' = TRUE
       ELSE UNCHANGED <<dbgStreams, mediaStreamRef, dbgIsRecording>>
    /\ PanelLog(IF outcome = "stream" THEN "recordingStarted" ELSE "recordingFailed")
    /\ UNCHANGED <<testStream, dbgIsTestingMic, testPhase, testClosure, testStreams,
                   testTimers>>

\* the button of line 119 while isRecording is true: stopRecording (lines 76-85);
\* the ref keeps its stream
dbgStopRecording ==
    /\ dbgIsRecording
    /\ dbgStreams' = StopStream(dbgStreams, mediaStreamRef)
    /\ dbgIsRecording' = FALSE
    /\ PanelLog("stopRecording")
    /\ UNCHANGED <<micPerm, testStream, dbgIsTestingMic, testPhase, testClosure,
                   testStreams, testTimers, dbgPending, mediaStreamRef>>

PanelNext ==
    \/ testMicrophoneAccess
    \/ \E outcome \in Outcomes : testMicrophoneAccessSettles(outcome)
    \/ checkSystemCapabilitiesResolves
    \/ \E id \in 1 .. MaxTestStreams : autoStop(id)
    \/ stopMicrophoneTest
    \/ dbgStartRecording
    \/ \E outcome \in Outcomes : dbgStartRecordingSettles(outcome)
    \/ dbgStopRecording

\* ======================================================================
\* Specifications
\* ======================================================================
Init == AppInit /\ RecorderInit /\ StoreInit /\ PageIdle /\ DiagIdle

\* VoiceNotesApp
Next == AppNext

Spec == Init /\ [][Next]_vars

\* VoiceNotesApp with the permission withdrawn between sessions
SpecRevocation == Init /\ [][RevocationNext]_vars

\* VoiceRecorder
RecorderSpecInit == Init /\ browserPerm = "prompt"

SpecRecorder == RecorderSpecInit /\ [][RecorderNext]_vars

\* VoiceNotesApp in a session whose recogniser is listening: permission was granted
\* before the start, the recogniser has fired onstart, the effect has not yet re-run
SessionListening ==
    /\ isRecording = TRUE
    /\ transcript = EmptyStr
    /\ recordingStartTime = 1
    /\ permissionState = "granted"
    /\ recognitionRef = 1
    /\ isRecognitionActive = TRUE
    /\ recs = [i \in Insts |-> IF i = 1
                                THEN [st |-> "listening", cRec |-> FALSE, cGranted |-> TRUE]
                                ELSE FreeRec]
    /\ pendGum = 0
    /\ pendCheck = 0
    /\ restartTimers = 0
    /\ queryPending = FALSE
    /\ effDeps = [isRecording |-> FALSE, permissionState |-> "granted"]
    /\ browserPerm = "granted"
    /\ permissionListener = TRUE
    /\ clock = 2
    /\ finals = << >>
    /\ sessionInst = 1
    /\ op = [name |-> "onstart", inst |-> 1, active |-> TRUE, idle |-> FALSE]

\* the result handling of VoiceNotesApp, from a listening session, with final and
\* interim results of several texts
TranscriptNext ==
    \/ \E i \in Insts, results \in ResultEvents : RecOnResult(i, results)
    \/ ClickStop
    \/ ClickStart
    \/ \E i \in Insts : RecOnStart(i)
    \/ \E i \in Insts, hidden \in BOOLEAN : RecOnEnd(i, hidden)
    \/ EffectRun

TranscriptInit == SessionListening /\ RecorderInit /\ StoreInit /\ PageIdle /\ DiagIdle

SpecTranscript == TranscriptInit /\ [][TranscriptNext]_vars

\* the note store and folder store of VoiceNotesApp after a session
SpecStore == StoreSpecInit /\ [][StoreNext]_vars

\* the same while localStorage takes every write
SpecStoreWritten == StoreSpecInit /\ [][StoreWrittenNext]_vars

\* the note list and folder list of the src application, from its first render
SrcSpecInit == AppInit /\ browserPerm = "prompt" /\ RecorderInit /\ StoreInit /\ PageIdle /\ DiagIdle

SpecSrc == SrcSpecInit /\ [][SrcNext]_vars

\* the note list of VoiceNotesApp under the filters of its search panel: the page
\* was opened on a localStorage that held some notes and one folder
FilterSpecInit ==
    /\ AppInit
    /\ browserPerm = "prompt"
    /\ RecorderInit
    /\ PageIdle
    /\ DiagIdle
    /\ notes \in FilterNoteLists
    /\ folders = <<StoredFolder(1, <<"w">>)>>
    /\ storedNotes = StringifyNotes(notes)
    /\ storedFolders = StringifyFolders(folders)
    /\ selectedFolderId = NoFolder
    /\ filter = NoFilter
    /\ loadWarning = FALSE
    /\ srcNotes = << >>
    /\ srcFolders = << >>
    /\ searchQuery = EmptyStr
    /\ storeOp = [name |-> "loadSavedData", id |-> NoFolder, arg |-> NoArg, threw |-> FALSE]
    /\ storeThrows = 0

SpecFilter == FilterSpecInit /\ [][FilterNext]_vars

\* the timeline of VoiceNotesApp: the page was opened on a localStorage that held
\* some notes, at a time of the day of the newest possible note
TimelineSpecInit ==
    /\ isRecording = FALSE
    /\ transcript = EmptyStr
    /\ recordingStartTime = NoTime
    /\ permissionState = "unknown"
    /\ recognitionRef = 1
    /\ isRecognitionActive = FALSE
    /\ recs = [i \in Insts |-> IF i = 1 THEN NewRec(FALSE, "unknown") ELSE FreeRec]
    /\ pendGum = 0
    /\ pendCheck = 0
    /\ restartTimers = 0
    /\ queryPending = TRUE
    /\ effDeps = [isRecording |-> FALSE, permissionState |-> "unknown"]
    /\ browserPerm = "prompt"
    /\ permissionListener = FALSE
    /\ clock = MaxStamp
    /\ finals = << >>
    /\ sessionInst = 0
    /\ op = [name |-> "mount", inst |-> 0, active |-> FALSE, idle |-> TRUE]
    /\ RecorderInit
    /\ PageIdle
    /\ DiagIdle
    /\ notes \in TimelineLists
    /\ folders = << >>
    /\ storedNotes = StringifyNotes(notes)
    /\ storedFolders = Missing
    /\ selectedFolderId = NoFolder
    /\ filter = NoFilter
    /\ loadWarning = FALSE
    /\ srcNotes = << >>
    /\ srcFolders = << >>
    /\ searchQuery = EmptyStr
    /\ storeOp = [name |-> "loadSavedData", id |-> NoFolder, arg |-> NoArg, threw |-> FALSE]
    /\ storeThrows = 0

SpecTimeline == TimelineSpecInit /\ [][TimelineNext]_vars

\* ---- loading the stored items
\* what the two items can hold when loadSavedData reads them: nothing, a text that
\* JSON.parse rejects, or a list written by the handlers
LoadNotesItems ==
    {Missing, Malformed, StringifyNotes(<< >>),
     StringifyNotes(<<StoredNote(2, <<"b">>, NoFolder)>>),
     StringifyNotes(<<StoredNote(2, <<"b">>, 1), StoredNote(1, <<"a">>, NoFolder)>>)}

LoadFoldersItems ==
    {Missing, Malformed, StringifyFolders(<< >>),
     StringifyFolders(<<StoredFolder(1, <<"w">>)>>)}

\* the page was opened on an empty localStorage; the items have since been left
\* there (by another tab of the application, or by hand) and the effect is about
\* to run loadSavedData again
LoadSpecInit ==
    /\ AppInit
    /\ RecorderInit
    /\ PageIdle
    /\ DiagIdle
    /\ notes = << >>
    /\ folders = << >>
    /\ storedNotes \in LoadNotesItems
    /\ storedFolders \in LoadFoldersItems
    /\ selectedFolderId = NoFolder
    /\ filter = NoFilter
    /\ loadWarning = FALSE
    /\ srcNotes = << >>
    /\ srcFolders = << >>
    /\ searchQuery = EmptyStr
    /\ storeOp = [name |-> "mount", id |-> NoFolder, arg |-> NoArg, threw |-> FALSE]
    /\ storeThrows = 0

LoadNext ==
    \/ PermissionQueryResolves
    \/ EffectRun

SpecLoad == LoadSpecInit /\ [][LoadNext]_vars

\* the folder dialogs of both applications, every write succeeding
FolderInputs == {EmptyStr, <<" ">>, <<" ", "w">>, <<"v", " ">>}

FolderNext ==
    \/ \E name \in FolderInputs, tick \in 0 .. 1 : handleCreateFolder(name, FALSE, tick)
    \/ \E id \in IdsOf(folders), name \in FolderInputs : handleUpdateFolder(id, name, FALSE)
    \/ \E id \in IdsOf(folders) : handleDeleteFolder(id, "none")
    \/ \E name \in FolderInputs, tick \in 0 .. 1 : srcCreateFolder(name, tick)
    \/ \E id \in IdsOf(srcFolders) : srcDeleteFolder(id)

SpecFolder == SrcSpecInit /\ [][FolderNext]_vars

\* the permission probes
ProbeSpecInit == AppInit /\ RecorderInit /\ StoreInit /\ PageIdle /\ DiagInit

SpecProbe == ProbeSpecInit /\ [][ProbeNext]_vars

\* the permission wizard
WizardSpecInit == AppInit /\ browserPerm = "prompt" /\ RecorderInit /\ StoreInit
                  /\ PageIdle /\ DiagInit

SpecWizard == WizardSpecInit /\ [][WizardNext]_vars

\* the diagnostics panels
PanelSpecInit == AppInit /\ browserPerm = "prompt" /\ RecorderInit /\ StoreInit
                 /\ PageIdle /\ DiagInit

SpecPanel == PanelSpecInit /\ [][PanelNext]_vars

\* the stand-alone recorder page
PageSpecInit == AppInit /\ browserPerm = "prompt" /\ RecorderInit /\ StoreInit /\ PageInit /\ DiagIdle

SpecPage == PageSpecInit /\ [][PageNext]_vars


\* ======================================================================
\* Claims
\* ======================================================================
\* recognition objects of VoiceNotesApp that are capturing
RunningInsts == {i \in Insts : Running(recs[i])}

\* C1: a start request issued while the session is not idle (recording, or an
\* earlier start still awaiting the permission grant), and the late continuation
\* of a start request that resumes while a session is recording, is rejected: it
\* leaves the transcript, the start time, the recording flag and the recognition
\* objects as they were; at most one recognition is capturing in every state.
C1_StartWhileNotIdleRejected ==
    [][/\ (\/ op'.name = "startRecording" /\ ~Idle
           \/ op'.name = "startRecordingResumes" /\ isRecording)
          => UNCHANGED <<transcript, recordingStartTime, isRecording, recs>>
       /\ Cardinality(RunningInsts') <= 1]_vars

\* C2: when the end event of the recognition object the session started fires
\* while the recording flag is set, the page is visible and permission is granted,
\* a restart of recognition is started or scheduled, the transcript is unchanged
\* and the session stays active.
C2_EndEventRestartsRecognition ==
    [][(op'.name = "onend" /\ isRecording /\ op'.inst = sessionInst
        /\ permissionState = "granted")
       => /\ restartTimers' > restartTimers \/ Cardinality(RunningInsts') > 0
          /\ transcript' = transcript
          /\ isRecording']_vars

\* s without its separator spaces
WithoutSpaces(s) == SelectSeq(s, LAMBDA c : c # " ")

\* C3: during a session the transcript is the concatenation, in arrival order, of
\* the results marked final delivered since the session began (separators apart);
\* an interim result is never part of it and never removes a final result's text.
C3_TranscriptIsConcatenationOfFinals ==
    isRecording => WithoutSpaces(transcript) = Flatten(finals)

\* C9: after stopRecording has run no recognition object is capturing, a restart
\* timer that fires while the recording flag is clear starts none, and none is
\* capturing in any idle state.
C9_NoRecognitionAfterStop ==
    /\ op.name = "stopRecording" => RunningInsts = {}
    /\ (op.name = "restartTimer" /\ ~op.active) => ~Running(recs[op.inst])
    /\ Idle => RunningInsts = {}

TextOf(t) == IF t # EmptyStr THEN t ELSE UntitledNote

\* the notes emitted for the startRecording call sid
NotesOf(sid) == {n \in 1 .. Len(vrNotes) : vrNotes[n].sid = sid}

\* C4: when the stop event of a session the user stopped has been handled, exactly
\* one note was emitted for that session; the text of every such note is the
\* transcript accumulated when the user stopped, and its audio is made of chunks
\* of that session only.
C4_OneNoteWithSessionTranscript ==
    /\ vrOp.name = "onstopUser" => Cardinality(NotesOf(vrOp.inst)) = 1
    /\ \A n \in 1 .. Len(vrNotes) :
          vrNotes[n].endedBy = "user"
          => /\ vrNotes[n].text = TextOf(vrNotes[n].heard)
             /\ \A c \in 1 .. Len(vrNotes[n].audio) : vrNotes[n].audio[c] = vrNotes[n].sid

\* C5: when getUserMedia resolves for a startRecording call that a stop request
\* has overtaken, the recording flag, the recorders, the recognition objects and
\* the recorder ref are left as they were and the acquired stream is not left live.
C5_LateGrantStartsNothing ==
    [][vrOp'.name = "lateGrant"
       => /\ UNCHANGED <<vrIsRecording, recorders, vrRecs, mediaRecorderRef, vrNotes>>
          /\ leakedStreams' = leakedStreams]_vars

\* C6: in every idle state no stream is live: none that a recorder holds and none
\* that startRecording acquired and dropped.
C6_NoLiveStreamWhenIdle ==
    VrIdle => /\ leakedStreams = 0
              /\ \A r \in Recorders : ~recorders[r].live

\* C7: after the handling of a recognition error or of a MediaRecorder error that
\* struck an active session, the recording flag is clear, the error is shown, no
\* recorder is recording and no recognition object is capturing; no note is ever
\* emitted for a session an error ended.
C7_FatalErrorEndsSessionWithoutNote ==
    /\ (vrOp.name \in {"onerror", "recorderError"} /\ vrOp.active)
       => /\ ~vrIsRecording
          /\ vrError
          /\ \A r \in Recorders : recorders[r].state # "recording"
          /\ \A i \in Insts : ~Running(vrRecs[i])
    /\ \A n \in 1 .. Len(vrNotes) : vrNotes[n].endedBy # "error"

\* C8: while the recording flag is set a recorder is recording and a recognition
\* object is started; in every idle state no recorder is recording and no
\* recognition object is capturing.
C8_RecorderAndRecognitionTogether ==
    /\ vrIsRecording
       => /\ \E r \in Recorders : recorders[r].state = "recording"
          /\ \E i \in Insts : Started(vrRecs[i])
    /\ VrIdle
       => /\ \A r \in Recorders : recorders[r].state # "recording"
          /\ \A i \in Insts : ~Running(vrRecs[i])

\* C11: when getUserMedia rejects for a startRecording call, the call returns with
\* the controller idle: the recording flag is clear, the recognition object is as
\* it was (start() was not called), the transcript is as it was, the permission
\* state is 'denied' and the denial toast is the one shown.
C11_DenialReturnsToIdle ==
    [][(frOp'.name = "permissionDenied" /\ frOp'.forStart)
       => /\ ~frIsRecording'
          /\ frRec' = frRec
          /\ frTranscript' = frTranscript
          /\ frPermissionState' = "denied"
          /\ frToast' = "Microphone access denied"]_vars

\* ---- C12: the reference list
\* add: the note goes in front
RefAdd(list, note) == <<note>> \o list

\* update: the fields are merged into the note that carries the id
RECURSIVE RefUpdate(_, _, _)
RefUpdate(list, id, fields) ==
    IF list = << >> THEN << >>
    ELSE LET first == Head(list)
             merged == [f \in DOMAIN first |->
                           IF f \in DOMAIN fields THEN fields[f] ELSE first[f]]
         IN  <<IF first.id = id THEN merged ELSE first>>
             \o RefUpdate(Tail(list), id, fields)

\* remove: the note that carries the id goes
RECURSIVE RefRemove(_, _)
RefRemove(list, id) ==
    IF list = << >> THEN << >>
    ELSE IF Head(list).id = id THEN RefRemove(Tail(list), id)
    ELSE <<Head(list)>> \o RefRemove(Tail(list), id)

UpdateOps == {"toggleNoteFavorite", "moveNoteToFolder", "handleNoteSave"}

\* C12: every add, update and remove takes the note list to the list the reference
\* operation gives for it (add puts the note in front, update merges the fields
\* into the note with the id, remove deletes the note with the id); so a sequence
\* of them gives the reference result of the sequence, the note added last first.
C12_NoteListFollowsReference ==
    [][/\ storeOp'.name = "saveNote" => notes' = RefAdd(notes, storeOp'.arg)
       /\ storeOp'.name \in UpdateOps
          => notes' = RefUpdate(notes, storeOp'.id, storeOp'.arg)
       /\ storeOp'.name = "deleteNote" => notes' = RefRemove(notes, storeOp'.id)]_vars

\* a second note was saved, an update changed one of two notes and a note was
\* removed from a list of two
C12_Witness ==
    /\ Len(notes) = 1
    /\ storeOp.name = "deleteNote"
    /\ notes[1].isFavorite = "true"
    /\ notes[1].text = <<"a">>
    /\ notes[1].id > 2

C14_PersistedEqualsMemory ==
    /\ (storeOp.name \in {"saveNote", "handleNoteSave", "toggleNoteFavorite",
                          "moveNoteToFolder", "deleteNote", "deleteFolder"}
        /\ ~storeOp.threw)
       => storedNotes = StringifyNotes(notes)
    /\ (storeOp.name \in {"createFolder", "updateFolder", "deleteFolder"}
        /\ ~storeOp.threw)
       => storedFolders = StringifyFolders(folders)
    /\ storeOp.name \in {"addNote", "srcUpdateNote", "srcDeleteNote", "srcDeleteFolder"}
       => storedNotes = Json(srcNotes)
    /\ storeOp.name \in {"srcCreateFolder", "srcDeleteFolder"}
       => storedFolders = Json(srcFolders)

\* ---- C15: the criteria of a filter, stated on their own
\* the same letter in either case
SameLetter(a, b) == a = b \/ {a, b} \in {{"a", "A"}, {"b", "B"}}

\* the text contains the string, letter case ignored
ContainsIgnoringCase(text, string) ==
    \E i \in 0 .. Len(text) - Len(string) :
        \A j \in 1 .. Len(string) : SameLetter(text[i + j], string[j])

\* the note satisfies every criterion the filter f specifies
Satisfies(note, f) ==
    /\ f.searchQuery # EmptyStr => ContainsIgnoringCase(note.text, f.searchQuery)
    /\ f.folderId # NoFolder => note.folderId = f.folderId
    /\ f.favorites => note.isFavorite = "true"
    /\ f.dateRange.set => /\ f.dateRange.start <= note.timestamp
                          /\ note.timestamp <= f.dateRange.end

\* the notes of list that satisfy f, in the order of list
RECURSIVE Satisfying(_, _)
Satisfying(list, f) ==
    IF list = << >> THEN << >>
    ELSE (IF Satisfies(Head(list), f) THEN <<Head(list)>> ELSE << >>)
         \o Satisfying(Tail(list), f)

\* C15: for every note list and every filter the filtered list is exactly the
\* notes that satisfy all the criteria the filter specifies (text contains the
\* search string whatever the letter case, folderId equal to the filter's folder,
\* isFavorite true under favorites-only, timestamp within the date range, both
\* ends included), in the order they have in the note list.
C15_FilterIsSatisfyingSubsequence ==
    filteredNotes = Satisfying(notes, filter)

\* all four criteria are set and one of four notes passes them
C15_Witness ==
    /\ Len(notes) = 4
    /\ filter.searchQuery = <<"a">>
    /\ filter.folderId # NoFolder
    /\ filter.favorites
    /\ filter.dateRange.set
    /\ Len(filteredNotes) = 1
    /\ filteredNotes[1].timestamp = filter.dateRange.start

\* C16: with no criterion specified the filter returns the note list itself, the
\* same notes in the same order: the filtered list of VoiceNotesApp under the
\* empty filter, and the result of the search box of the src application under
\* an empty (or blank) search string.
C16_EmptyFilterIsIdentity ==
    /\ filter = NoFilter => filteredNotes = notes
    /\ Trim(searchQuery) = EmptyStr => SearchFilteredNotes = srcNotes

\* ---- C17: the calendar day of a timestamp, and counting the items of a list
DayOf(timestamp) == timestamp \div TicksPerDay

Occurrences(list, x) == Cardinality({k \in 1 .. Len(list) : list[k] = x})

C19_LoadToleratesEachKey ==
    storeOp.name = "loadSavedData"
    => /\ notes = IF storedNotes.kind = "json" THEN ParseNotes(storedNotes) ELSE << >>
       /\ folders = IF storedFolders.kind = "json" THEN ParseFolders(storedFolders)
                    ELSE << >>
       /\ loadWarning = (storedNotes.kind = "malformed"
                         \/ storedFolders.kind = "malformed")

\* C20: a mutating operation whose write to localStorage fails keeps its change of
\* the lists and otherwise ends as it does on success: a failed save has put the
\* note in front and has cleared the transcript, a failed delete has removed the
\* note, and a failed folder delete has cleared the folder of its notes, removed
\* the folder and cleared the selection of that folder.
C20_WriteFailureKeepsMutationAndCompletes ==
    [][storeOp'.threw
       => /\ storeOp'.name = "saveNote"
             => /\ notes' = <<storeOp'.arg>> \o notes
                /\ transcript' = EmptyStr
          /\ storeOp'.name = "deleteNote"
             => notes' = SelectSeq(notes, LAMBDA note : note.id # storeOp'.id)
          /\ storeOp'.name = "deleteFolder"
             => /\ \A k \in 1 .. Len(notes) : notes'[k].folderId # storeOp'.id
                /\ storeOp'.id \notin {folders'[k].id : k \in 1 .. Len(folders')}
                /\ selectedFolderId' # storeOp'.id]_vars

\* ---- VoiceNotesApp: aborts
\* nothing is in flight that could still change the recording flag without the
\* user: no start awaits a grant, no restart timer is pending, no recognition
\* object has an event to deliver, and the effect has run for the current state
Settled ==
    /\ pendGum = 0
    /\ pendCheck = 0
    /\ restartTimers = 0
    /\ ~queryPending
    /\ effDeps = [isRecording |-> isRecording, permissionState |-> permissionState]
    /\ \A i \in Insts : ~Started(recs[i])

\* C21: after an abort of a start or of a session (permission denied, start()
\* throwing, a recognition error, recognition stopped by the effect cleanup) the
\* controller reaches the non-recording state: the handler of a recognition
\* error, and of a denial that no session of another start overlaps, leaves the
\* recording flag clear, and no state persists with the recording flag set while no recognition object
\* is started and no restart is pending.
C21_AbortReachesNonRecording ==
    /\ op.name \in {"onerror", "onerrorTransient"} => ~isRecording
    /\ (op.name = "permissionDenied" /\ ~op.active) => ~isRecording
    /\ Settled => ~isRecording

\* ---- the permission probes
\* C22: every permission probe that acquires a microphone stream
\* (requestMicrophonePermission, requestPermission, testMicrophonePermission and
\* loadDevices of the diagnostics component) stops the tracks of that stream at
\* once and starts no session: in every state no stream of a probe is live, and
\* the continuation of requestMicrophonePermission leaves the recording flag as
\* it found it.
C22_ProbeReleasesStream ==
    /\ \A p \in Probes : probeLive[p] = 0
    /\ op.name = "permissionGranted" => isRecording = op.active

\* ---- the note stores: ids
\* no two notes of list carry the same id
UniqueIds(list) ==
    \A j, k \in 1 .. Len(list) : list[j].id = list[k].id => j = k

\* the positions at which the lists before and after differ
Changed(before, after) ==
    {k \in 1 .. Len(before) : k > Len(after) \/ after[k] # before[k]}

\* C23: no two notes of a note store have the same id, whatever saves (the id is
\* the clock at save time), updates and deletes ran; so a delete removes at most
\* one note and an update changes at most one note.
C23_NoteIdsUnique ==
    [][/\ UniqueIds(notes')
       /\ UniqueIds(srcNotes')
       /\ storeOp'.name \in {"deleteNote", "srcDeleteNote"}
          => /\ Len(notes') >= Len(notes) - 1
             /\ Len(srcNotes') >= Len(srcNotes) - 1
       /\ storeOp'.name \in {"toggleNoteFavorite", "moveNoteToFolder", "handleNoteSave",
                             "srcUpdateNote"}
          => /\ Cardinality(Changed(notes, notes')) <= 1
             /\ Cardinality(Changed(srcNotes, srcNotes')) <= 1]_vars

\* ---- the folder stores: names
\* name holds a character that is not white space
NonBlank(name) == \E k \in 1 .. Len(name) : name[k] \notin Whitespace

C25_RefFollowsStartedRecognition ==
    /\ Cardinality(RunningInsts) <= 1
    /\ isRecording => RunningInsts \subseteq {recognitionRef}
    /\ op.name = "stopRecording" => RunningInsts = {}

\* ---- the stores: folder references
\* every folderId of list is undefined or the id of a folder of fs
Resolves(list, fs) ==
    \A k \in 1 .. Len(list) : list[k].folderId \in IdsOf(fs) \cup {NoFolder}

\* C26: after any sequence of folder creations and deletions, folder selections,
\* note saves, moves to a folder and note deletions, the folderId of every note is
\* undefined or the id of a folder of the folder list; a note saved after a
\* folder was deleted does not get the id of the deleted folder.
C26_FolderIdResolves ==
    /\ Resolves(notes, folders)
    /\ Resolves(srcNotes, srcFolders)

\* ---- VoiceNotesApp: the permission check before a session
\* C27: the permission is queried when the application starts and again before
\* every transition into an active session, so that a withdrawal of the
\* permission while no session is recording is observed before the next session
\* becomes active: the query of the mount effect is in flight in the initial
\* state, and whenever the recording flag becomes set the browser permission is
\* granted and the permission state is 'granted'.
C27_RevocationObservedBeforeSession ==
    [][/\ op.name = "mount" => queryPending
       /\ (~isRecording /\ isRecording')
          => /\ browserPerm' = "granted"
             /\ permissionState' = "granted"]_vars

\* ---- C28: the sections a note value occurs in, and the notes of all sections
SectionsHolding(sections, note) ==
    {s \in 1 .. Len(sections) : Occurrences(sections[s].notes, note) > 0}

RECURSIVE SectionSizes(_)
SectionSizes(sections) ==
    IF sections = << >> THEN 0
    ELSE Len(Last(sections).notes) + SectionSizes(SubSeq(sections, 1, Len(sections) - 1))

\* C28: the grouping of the timeline is a partition of the note list it is given:
\* every note of the list is in exactly one section, as often as it is in the
\* list; no section is empty; no section holds anything that is not in the list;
\* and the sizes of the sections add up to the length of the list.
C28_TimelineGroupingIsPartition ==
    LET sections == Timeline(notes, clock)
    IN  /\ \A k \in 1 .. Len(notes) :
              /\ Cardinality(SectionsHolding(sections, notes[k])) = 1
              /\ \A s \in SectionsHolding(sections, notes[k]) :
                    Occurrences(sections[s].notes, notes[k]) = Occurrences(notes, notes[k])
        /\ \A s \in 1 .. Len(sections) :
              /\ sections[s].notes # << >>
              /\ \A j \in 1 .. Len(sections[s].notes) :
                    Occurrences(notes, sections[s].notes[j]) > 0
        /\ \A r, s \in 1 .. Len(sections) : sections[r].date = sections[s].date => r = s
        /\ SectionSizes(sections) = Len(notes)

\* three different notes, the first and the last of one day and the second of
\* another day: two sections, one of two notes and one of one note
C28_Witness ==
    /\ Len(notes) = 3
    /\ DayOf(notes[1].timestamp) = DayOf(notes[3].timestamp)
    /\ notes[1] # notes[3]
    /\ DayOf(notes[2].timestamp) # DayOf(notes[1].timestamp)
    /\ Len(Timeline(notes, clock)) = 2
    /\ {Len(Timeline(notes, clock)[s].notes) : s \in 1 .. 2} = {1, 2}

\* ---- the permission wizard (PermissionSetup)
\* C30: the wizard always shows one of its four steps, and it shows the Success
\* step (4) only while its permission state is 'granted', whatever the order of
\* the initial permission query, the permission change events, the results of
\* the microphone test and the clicks on the step buttons.
C30_SuccessStepOnlyWhileGranted ==
    /\ currentStep \in 1 .. 4
    /\ currentStep = 4 => wzPermissionState = "granted"

\* ---- the diagnostics panels
\* C29: in the figmacode panel testStream is set exactly while a test stream is
\* live, whatever the order of test starts, manual stops and timer expiries, and
\* every stream a panel acquired stays within reach of the code that stops it:
\* a live stream of the figmacode panel is the stream of the call in flight or
\* has its timer pending, a live stream of the src panel is the one the ref
\* holds.
C29_TestStreamSetWhileLive ==
    /\ testStream # 0 <=> \E k \in 1 .. MaxTestStreams : testStreams[k] = "live"
    /\ testStream # 0 => testStreams[testStream] = "live"
    /\ \A k \in 1 .. MaxTestStreams :
          testStreams[k] = "live" => k = testClosure \/ k \in testTimers
    /\ \A k \in 1 .. MaxTestStreams :
          dbgStreams[k] = "live" => k = mediaStreamRef

====
